---- MODULE Spec2Model ----
(***************************************************************************)
(* Model of the transparent Redis proxy: the RESP AUTH/HELLO recognizer    *)
(* (src/src/auth.py, duplicated in src/src/proxy.py), the client session   *)
(* of TransparentRedisProxy (src/src/proxy.py) and the upstream connection *)
(* pool AsyncConnectionPool (src/src/pool.py).                             *)
(*                                                                         *)
(* Byte buffers (Python bytes) are sequences of integers 0..255; decoded   *)
(* strings (Python str) are sequences of code points.  A TLA+ string       *)
(* literal is turned into its ASCII bytes by B.                            *)
(***************************************************************************)
EXTENDS Integers, Sequences, FiniteSets, TLC

VARIABLES
    config,             \* Config: proxy_password, redis_username, redis_password
    rec_data,           \* recognizer run: the buffer handed to intercept_auth_command
    rec_out,            \* recognizer run: the bytes it returned
    rec_intercepted,    \* recognizer run: the flag it returned
    rec_called,         \* recognizer run: whether the call has been made
    h_pc,               \* handle_client: where the session thread stands
    sock,               \* the proxy's socket objects: "none", "open" or "closed"
    pc,                 \* forward_data, per direction: where the forwarder stands
    fwd_data,           \* forward_data, per direction: its local variable data
    rx,                 \* per peer: buffers the peer has sent and the proxy has not read
    eof,                \* per peer: the peer has closed its end
    tx,                 \* per peer: what the proxy has written to the peer, by whom
    log,                \* history: each client buffer read, and what became of it
    nsent,              \* per peer: how many buffers the peer has sent
    closes,             \* history: per socket, how many times close() was called on it
    pool,               \* AsyncConnectionPool.pool: the idle queue, connections in order
    stats,              \* AsyncConnectionPool.stats: the counters
    _shutdown,          \* AsyncConnectionPool._shutdown
    maintenance_task,   \* AsyncConnectionPool.maintenance_task: "none", "running", "cancelling", "finishing", "done"
    conns,              \* every connection created so far: its writer is "open" or "closed"
    init_pc,            \* initialize(): where the call stands
    pw_pc,              \* _create_connection_for_prewarm(i): where each task stands
    s_pc,               \* per session: where its get() / release() call stands
    s_conn,             \* per session: the connection get() popped or returned (0: none)
    m_pc,               \* _maintenance_worker: where the task stands
    temp_connections,   \* _cleanup_unhealthy_connections: connections still to check
    sd_pc,              \* shutdown(), per call: where the call stands
    returned,           \* history: how many connections release() has put back in the queue
    run_pc,             \* run_async_proxy: where the coroutine stands
    server_task,        \* run_async_proxy: server_task: "none", "running", "failed", "cancelled"
    _shutdown_event,    \* AsyncServerManager._shutdown_event is set
    result,             \* run_async_proxy: its return value ("none" until it returns)
    first_shutdown,     \* history: the call of shutdown() that began first ("none": no call yet)
    authenticated,      \* upstream: the connections on which it has accepted an AUTH
    presented           \* the sessions whose client has presented the proxy password

rec_vars == <<rec_data, rec_out, rec_intercepted, rec_called>>

session_vars == <<h_pc, sock, pc, fwd_data, rx, eof, tx, log, nsent, closes>>

pool_state ==
    <<pool, stats, _shutdown, maintenance_task, conns, init_pc, pw_pc, 
      s_pc, s_conn, m_pc, temp_connections, sd_pc, returned,
      run_pc, server_task, _shutdown_event, result, first_shutdown>>

auth_vars == <<authenticated, presented>>

pool_vars == <<pool_state, auth_vars>>

vars == <<config, rec_vars, session_vars, pool_vars>>

-----------------------------------------------------------------------------
(* Characters and bytes *)

Digits == "0123456789"
UpperCase == "ABCDEFGHIJKLMNOPQRSTUVWXYZ"
LowerCase == "abcdefghijklmnopqrstuvwxyz"

IndexIn(s, c) == CHOOSE i \in 1..Len(s) : SubSeq(s, i, i) = c

IsIn(s, c) == \E i \in 1..Len(s) : SubSeq(s, i, i) = c

\* The ASCII code of a one-character string.
Ord(c) ==
    IF c = "\r" THEN 13
    ELSE IF c = "\n" THEN 10
    ELSE IF c = " " THEN 32
    ELSE IF c = "$" THEN 36
    ELSE IF c = "*" THEN 42
    ELSE IF c = "+" THEN 43
    ELSE IF c = "-" THEN 45
    ELSE IF IsIn(Digits, c) THEN 47 + IndexIn(Digits, c)
    ELSE IF IsIn(UpperCase, c) THEN 64 + IndexIn(UpperCase, c)
    ELSE 96 + IndexIn(LowerCase, c)

\* The ASCII bytes (equally: the code points) of a string literal.
B(s) == [i \in 1..Len(s) |-> Ord(SubSeq(s, i, i))]

CRLF == B("\r\n")

-----------------------------------------------------------------------------
(* Python's bytes/str operations, as the recognizer uses them *)

\* bytes.decode('utf-8', errors='ignore') for one- and two-byte sequences:
\* an invalid or truncated byte is dropped and decoding resumes after it.
RECURSIVE decode(_)
decode(b) ==
    IF b = <<>> THEN <<>>
    ELSE IF b[1] < 128 THEN <<b[1]>> \o decode(Tail(b))
    ELSE IF b[1] \in 194..223 /\ Len(b) >= 2 /\ b[2] \in 128..191
         THEN <<(b[1] - 192) * 64 + (b[2] - 128)>> \o decode(Tail(Tail(b)))
    ELSE decode(Tail(b))

\* str.encode('utf-8') for code points below U+0800.
RECURSIVE encode(_)
encode(s) ==
    IF s = <<>> THEN <<>>
    ELSE IF s[1] < 128 THEN <<s[1]>> \o encode(Tail(s))
    ELSE <<192 + (s[1] \div 64), 128 + (s[1] % 64)>> \o encode(Tail(s))

\* str.lower() on ASCII and Latin-1 code points.
lower(s) ==
    [i \in 1..Len(s) |->
        IF s[i] \in 65..90 \/ (s[i] \in 192..222 /\ s[i] # 215)
        THEN s[i] + 32 ELSE s[i]]

\* pat in s
Contains(s, pat) ==
    \E i \in 1..(Len(s) - Len(pat) + 1) : SubSeq(s, i, i + Len(pat) - 1) = pat

\* s.startswith(pat)
startswith(s, pat) ==
    Len(s) >= Len(pat) /\ SubSeq(s, 1, Len(pat)) = pat

\* s.split(sep): the pieces between the non-overlapping occurrences of sep,
\* scanned left to right; one more piece than occurrences.
RECURSIVE split(_, _)
split(s, sep) ==
    IF ~Contains(s, sep) THEN <<s>>
    ELSE LET i == CHOOSE k \in 1..(Len(s) - Len(sep) + 1) :
                    /\ SubSeq(s, k, k + Len(sep) - 1) = sep
                    /\ \A j \in 1..(k - 1) : SubSeq(s, j, j + Len(sep) - 1) # sep
         IN  <<SubSeq(s, 1, i - 1)>> \o split(SubSeq(s, i + Len(sep), Len(s)), sep)

\* sep.join(parts)
RECURSIVE join(_, _)
join(parts, sep) ==
    IF parts = <<>> THEN <<>>
    ELSE IF Len(parts) = 1 THEN parts[1]
    ELSE parts[1] \o sep \o join(Tail(parts), sep)

\* The decimal digits of n >= 0, as an f-string formats an int.
RECURSIVE str(_)
str(n) ==
    IF n < 10 THEN <<48 + n>> ELSE str(n \div 10) \o <<48 + (n % 10)>>

\* x or d, for a str (None is modelled as the empty string: both are falsy).
PyOr(x, d) == IF x = <<>> THEN d ELSE x

-----------------------------------------------------------------------------
(* AuthInterceptor (src/src/auth.py); TransparentRedisProxy carries a      *)
(* line-for-line copy of the same two methods (src/src/proxy.py:144-230).  *)

\* The error reply returned for a wrong proxy password.
InvalidPassword == B("-ERR invalid password\r\n")

Result(d, flag) == [data |-> d, was_intercepted |-> flag]

get_redis_password(cfg) == PyOr(cfg.redis_password, <<>>)

\* A fall-through that returns the decoded text encoded again.
passthrough_reencoded(data) == Result(encode(decode(data)), FALSE)

\* The final "return data, False": the caller's bytes object, untouched.
passthrough(data) == Result(data, FALSE)

\* The f-string that builds the AUTH <username> <password> command; the
\* lengths are len() of the str values.
new_cmd(redis_username, redis_password) ==
    B("*3\r\n$4\r\nAUTH\r\n$") \o str(Len(redis_username)) \o CRLF
        \o redis_username \o CRLF
        \o B("$") \o str(Len(redis_password)) \o CRLF
        \o redis_password \o CRLF

\* A HELLO rewrite that swaps the password and leaves its length prefix.
intercept_hello_stale_prefix(cfg, data, data_str) ==
    LET parts == split(data_str, CRLF)
        n == Len(parts)
    IN  IF n >= 12 /\ startswith(parts[n - 2], B("$"))
        THEN IF parts[n - 1] # cfg.proxy_password
             THEN Result(InvalidPassword, TRUE)
             ELSE Result(encode(join([parts EXCEPT ![n - 1] = get_redis_password(cfg)],
                                     CRLF)), TRUE)
        ELSE passthrough(data)

\* Branch 1: HELLO <ver> AUTH <user> <password>.  The password is
\* parts[-2] and its length prefix parts[-3].
intercept_hello(cfg, data, data_str) ==
    LET parts == split(data_str, CRLF)
        n == Len(parts)
    IN  IF n >= 12 /\ startswith(parts[n - 2], B("$"))
        THEN LET provided_password == parts[n - 1]
                 redis_password == get_redis_password(cfg)
                 new_parts == [parts EXCEPT
                                 ![n - 2] = B("$") \o str(Len(redis_password)),
                                 ![n - 1] = redis_password]
             IN  IF provided_password # cfg.proxy_password
                 THEN Result(InvalidPassword, TRUE)
                 ELSE Result(encode(join(new_parts, CRLF)), TRUE)
        ELSE passthrough(data)

\* Branch 2: AUTH <password>.  The password is read from parts[5].
intercept_auth_password(cfg, data, data_str) ==
    LET parts == split(data_str, CRLF)
    IN  IF Len(parts) >= 6
        THEN LET provided_password == parts[6]
                 redis_password == get_redis_password(cfg)
                 redis_username == PyOr(cfg.redis_username, B("default"))
             IN  IF provided_password # cfg.proxy_password
                 THEN Result(InvalidPassword, TRUE)
                 ELSE Result(encode(new_cmd(redis_username, redis_password)), TRUE)
        ELSE passthrough(data)

\* A three-element rewrite that keeps the username the client supplied.
intercept_auth_keeps_client_username(cfg, data, data_str) ==
    LET parts == split(data_str, CRLF)
        n == Len(parts)
    IN  IF n >= 8 /\ startswith(parts[n - 2], B("$"))
        THEN IF parts[n - 1] # cfg.proxy_password
             THEN Result(InvalidPassword, TRUE)
             ELSE Result(encode(new_cmd(parts[n - 3], get_redis_password(cfg))), TRUE)
        ELSE passthrough(data)

\* Branch 3: AUTH <username> <password>.  The password is
\* parts[len(parts) - 2] and its length prefix parts[len(parts) - 3].
intercept_auth_username_password(cfg, data, data_str) ==
    LET parts == split(data_str, CRLF)
        n == Len(parts)
    IN  IF n >= 8 /\ startswith(parts[n - 2], B("$"))
        THEN LET provided_password == parts[n - 1]
                 redis_password == get_redis_password(cfg)
                 redis_username == PyOr(cfg.redis_username, B("default"))
             IN  IF provided_password # cfg.proxy_password
                 THEN Result(InvalidPassword, TRUE)
                 ELSE Result(encode(new_cmd(redis_username, redis_password)), TRUE)
        ELSE passthrough(data)

\* The if / elif / elif chain: the first pattern found selects the branch,
\* and a branch that does not return falls through to "return data, False".
intercept_auth_command(cfg, data) ==
    LET data_str == decode(data)
    IN  IF /\ Contains(lower(data_str), B("*5\r\n$5\r\nhello\r\n"))
           /\ Contains(lower(data_str), B("$4\r\nauth\r\n"))
        THEN intercept_hello(cfg, data, data_str)
        ELSE IF Contains(data_str, B("*2\r\n$4\r\nAUTH\r\n$"))
        THEN intercept_auth_password(cfg, data, data_str)
        ELSE IF Contains(data_str, B("*3\r\n$4\r\nAUTH\r\n"))
        THEN intercept_auth_username_password(cfg, data, data_str)
        ELSE passthrough(data)

-----------------------------------------------------------------------------
(* RESP frames as a client writes them (bytes) *)

\* A bulk string $<n>\r\n<payload>\r\n whose prefix declares n bytes.
bulk_declared(n, payload) == B("$") \o str(n) \o CRLF \o payload \o CRLF

\* A well-formed bulk string: the prefix is the payload's byte length.
bulk(payload) == bulk_declared(Len(payload), payload)

RECURSIVE bulks(_)
bulks(elems) ==
    IF elems = <<>> THEN <<>> ELSE bulk(elems[1]) \o bulks(Tail(elems))

\* A well-formed RESP array of bulk strings: *<k>\r\n then k bulk strings.
resp_array(elems) == B("*") \o str(Len(elems)) \o CRLF \o bulks(elems)

\* The three frame shapes; cmd, user, pw, ver are str values (code points).
Auth2(cmd, pw) == resp_array(<<encode(cmd), encode(pw)>>)

Auth3(cmd, user, pw) == resp_array(<<encode(cmd), encode(user), encode(pw)>>)

Hello(hello, ver, auth, user, pw) ==
    resp_array(<<encode(hello), encode(ver), encode(auth), encode(user), encode(pw)>>)

\* The same shapes with a final length prefix that declares `extra` bytes
\* more than the password holds.
Auth2Mismatch(cmd, pw, extra) ==
    B("*2\r\n") \o bulk(encode(cmd))
        \o bulk_declared(Len(encode(pw)) + extra, encode(pw))

Auth3Mismatch(cmd, user, pw, extra) ==
    B("*3\r\n") \o bulk(encode(cmd)) \o bulk(encode(user))
        \o bulk_declared(Len(encode(pw)) + extra, encode(pw))

-----------------------------------------------------------------------------
(* The bounded sets the inputs are drawn from *)

EAcute == <<233>>           \* U+00E9, two bytes in UTF-8

AuthTokens == {B("AUTH"), B("auth"), B("Auth")}

HelloTokens == {B("hello"), B("HELLO"), B("HeLLo")}

ProxyPasswords == {B("secret"), B("s") \o EAcute}

ClientPasswords == ProxyPasswords \cup {B("wrong"), B("Secret"), <<>>}

ClientUsernames == {B("alice"), B("default"), <<>>, B("al") \o EAcute}

UpstreamUsernames == {<<>>, B("juicefs"), B("j") \o EAcute}

UpstreamPasswords == {<<>>, B("up"), B("p") \o EAcute}

Configs ==
    [proxy_password : ProxyPasswords,
     redis_username : UpstreamUsernames,
     redis_password : UpstreamPasswords]

Auth2Frames == {Auth2(c, pw) : c \in AuthTokens, pw \in ClientPasswords}

Auth3Frames ==
    {Auth3(c, u, pw) : c \in AuthTokens, u \in ClientUsernames, pw \in ClientPasswords}

HelloFrames ==
    {Hello(h, B("3"), a, u, pw) :
        h \in HelloTokens, a \in {B("AUTH"), B("auth")},
        u \in {B("default"), B("al") \o EAcute}, pw \in ClientPasswords}

MismatchFrames ==
    {Auth2Mismatch(B("AUTH"), pw, 3) : pw \in ClientPasswords}
        \cup {Auth3Mismatch(B("AUTH"), u, pw, 3) :
                u \in {B("alice")}, pw \in ClientPasswords}

\* Frames cut short by the read: the pattern is there, the arguments are not.
TruncatedFrames ==
    {B("*2\r\n$4\r\nAUTH\r\n$"),
     B("*3\r\n$4\r\nAUTH\r\n$5\r\nalice\r\n"),
     B("*5\r\n$5\r\nhello\r\n$1\r\n3\r\n$4\r\nAUTH\r\n")}

\* Data without any AUTH/HELLO array header: commands, an inline AUTH, and
\* binary payloads that hold the letters AUTH, a two-byte character and
\* bytes that are not valid UTF-8.
OtherBuffers ==
    {resp_array(<<B("GET"), B("key")>>),
     resp_array(<<B("PING")>>),
     resp_array(<<B("SET"), B("k"), <<255, 0>> \o B("AUTH") \o <<195>>>>),
     resp_array(<<B("SET"), B("auth"), encode(EAcute)>>),
     B("AUTH secret\r\n"),
     <<255, 254>> \o B("AUTH") \o <<0, 195, 169, 128>>,
     B("+OK\r\n")}

ClientBuffers ==
    Auth2Frames \cup Auth3Frames \cup HelloFrames \cup MismatchFrames
        \cup TruncatedFrames \cup OtherBuffers

\* The well-formed frames of the three shapes that carry password pw, with
\* the AUTH command token written `cmd`.
Auth2With(cmd, pw) == {Auth2(cmd, pw)}

Auth3With(cmd, pw) == {Auth3(cmd, u, pw) : u \in ClientUsernames}

HelloWith(pw) ==
    {Hello(h, B("3"), a, u, pw) :
        h \in HelloTokens, a \in {B("AUTH"), B("auth")},
        u \in {B("default"), B("al") \o EAcute}}

ShapeFrames(pw) ==
    Auth2With(B("AUTH"), pw) \cup Auth3With(B("AUTH"), pw) \cup HelloWith(pw)

WrongPasswords(cfg) == ClientPasswords \ {cfg.proxy_password}

\* The upstream credentials a rewritten AUTH carries.
UpstreamUser(cfg) == IF cfg.redis_username = <<>> THEN B("default") ELSE cfg.redis_username

UpstreamPass(cfg) == cfg.redis_password

-----------------------------------------------------------------------------
(* AsyncConnectionPool: the state after __init__ (src/src/pool.py)         *)

MaxSessions == 2            \* sessions that borrow from the pool

Sessions == 1..MaxSessions

\* The indices of the prewarm tasks _prewarm_pool may create.
PrewarmTasks == {1, 2}

\* The calls of server_manager.shutdown(), which shuts the proxy and with
\* it the pool down: the task the signal handler creates, and the call of
\* run_async_proxy ("Ensure graceful shutdown").
ShutdownCalls == {"signal", "final"}

\* self.stats as __init__ leaves it.
NoStats ==
    [created |-> 0, reused |-> 0, failed_health_checks |-> 0, pool_hits |-> 0,
     pool_misses |-> 0, connections_closed |-> 0, current_size |-> 0]

\* The pool as __init__ leaves it: an empty queue, zeroed counters, no
\* maintenance task, no call in progress.
PoolNotStarted ==
    /\ pool = <<>>
    /\ stats = NoStats
    /\ _shutdown = FALSE
    /\ maintenance_task = "none"
    /\ conns = <<>>
    /\ init_pc = "none"
    /\ pw_pc = [i \in PrewarmTasks |-> "none"]
    /\ s_pc = [s \in Sessions |-> "idle"]
    /\ s_conn = [s \in Sessions |-> 0]
    /\ m_pc = "none"
    /\ temp_connections = <<>>
    /\ sd_pc = [k \in ShutdownCalls |-> "idle"]
    /\ returned = 0
    /\ run_pc = "load_config"
    /\ server_task = "none"
    /\ _shutdown_event = FALSE
    /\ result = "none"
    /\ first_shutdown = "none"
    /\ authenticated = {}
    /\ presented = {}

-----------------------------------------------------------------------------
(* TransparentRedisProxy: one client session (src/src/proxy.py)            *)
(*                                                                         *)
(* handle_client connects upstream and runs forward_data in two threads,   *)
(* one per direction.  The peers (client, upstream server) are the         *)
(* environment: they send buffers and close their end at any time.  One    *)
(* recv returns one buffer the peer wrote.                                 *)

MaxClientBuffers == 2       \* buffers the client sends in a session
MaxUpstreamReplies == 2     \* buffers the upstream server sends in a session

Peers == {"client", "upstream"}

Directions == {"client->server", "server->client"}

\* The args of the two threads: (client_socket, upstream, "client->server",
\* True) and (upstream, client_socket, "server->client", False).
Source(d) == IF d = "client->server" THEN "client" ELSE "upstream"

Destination(d) == IF d = "client->server" THEN "upstream" ELSE "client"

intercept_auth(d) == d = "client->server"

\* TransparentRedisProxy.intercept_auth_command: the same text as
\* AuthInterceptor.intercept_auth_command.
proxy_intercept_auth_command(cfg, d) == intercept_auth_command(cfg, d)

\* "if was_intercepted and data.startswith(b"-ERR")"
\* A forwarder that never takes the error branch.
auth_failed_never(was_intercepted, d) == FALSE

auth_failed(was_intercepted, d) == was_intercepted /\ startswith(d, B("-ERR"))

\* The configuration of the end-to-end scenarios.
SessionConfigs ==
    {[proxy_password |-> B("secret"), redis_username |-> <<>>,
      redis_password |-> B("up")]}

\* A buffer in which an inline line that starts with -ERR comes before a
\* HELLO frame with the proxy password (two commands read in one recv).
PrefixedHello ==
    B("-ERR x\r\n")
        \o Hello(B("hello"), B("3"), B("AUTH"), B("default"), B("secret"))

\* What the client may send: frames of the three shapes with the proxy
\* password and with a wrong one, a HELLO frame with the proxy password
\* behind other bytes, and an ordinary command.
SessionBuffers ==
    {Auth2(B("AUTH"), B("secret")),
     Auth3(B("AUTH"), B("alice"), B("secret")),
     Auth2(B("AUTH"), B("wrong")),
     Auth3(B("AUTH"), B("alice"), B("wrong")),
     Hello(B("hello"), B("3"), B("AUTH"), B("default"), B("wrong")),
     PrefixedHello,
     resp_array(<<B("GET"), B("key")>>)}

\* What the upstream server sends: its n-th buffer is UpstreamReply(n), so
\* that buffers are told apart by their position in the stream.
UpstreamReplies == <<B("+OK\r\n"), B("$-1\r\n"), B("+PONG\r\n")>>

UpstreamReply(n) == UpstreamReplies[((n - 1) % Len(UpstreamReplies)) + 1]

SessionNotStarted ==
    /\ h_pc = "connect"
    /\ sock = [p \in Peers |-> IF p = "client" THEN "open" ELSE "none"]
    /\ pc = [d \in Directions |-> "idle"]
    /\ fwd_data = [d \in Directions |-> <<>>]
    /\ rx = [p \in Peers |-> <<>>]
    /\ eof = [p \in Peers |-> FALSE]
    /\ tx = [p \in Peers |-> <<>>]
    /\ log = <<>>
    /\ nsent = [p \in Peers |-> 0]
    /\ closes = [p \in Peers |-> 0]

RecognizerUnused ==
    /\ rec_data = <<>>
    /\ rec_out = <<>>
    /\ rec_intercepted = FALSE
    /\ rec_called = FALSE

\* The state when handle_client is entered with an accepted client socket.
Init ==
    /\ config \in SessionConfigs
    /\ RecognizerUnused
    /\ SessionNotStarted
    /\ PoolNotStarted

(* ---- the peers ---- *)

\* recv(4096) on the socket of peer p is in progress in forwarder d.
InRecv(d, p) == pc[d] = "in_recv" /\ Source(d) = p

\* The connection to peer p is still up at the proxy's end: its socket
\* object is open, or a recv on it is in progress (close() from another
\* thread does not end a recv that is already blocked, and the connection
\* stays up until that recv returns).
Connected(p) == sock[p] = "open" \/ \E d \in Directions : InRecv(d, p)

ClientSend ==
    /\ Connected("client") /\ ~eof["client"]
    /\ nsent["client"] < MaxClientBuffers
    /\ \E b \in SessionBuffers : rx' = [rx EXCEPT !["client"] = Append(@, b)]
    /\ nsent' = [nsent EXCEPT !["client"] = @ + 1]
    /\ UNCHANGED <<pool_vars, config, rec_vars, h_pc, sock, pc, fwd_data, eof, tx, log, closes>>

UpstreamSend ==
    /\ Connected("upstream") /\ ~eof["upstream"]
    /\ nsent["upstream"] < MaxUpstreamReplies
    /\ rx' = [rx EXCEPT !["upstream"] = Append(@, UpstreamReply(nsent["upstream"] + 1))]
    /\ nsent' = [nsent EXCEPT !["upstream"] = @ + 1]
    /\ UNCHANGED <<pool_vars, config, rec_vars, h_pc, sock, pc, fwd_data, eof, tx, log, closes>>

PeerClose(p) ==
    /\ Connected(p) /\ ~eof[p]
    /\ eof' = [eof EXCEPT ![p] = TRUE]
    /\ UNCHANGED <<pool_vars, config, rec_vars, h_pc, sock, pc, fwd_data, rx, tx, log, nsent, closes>>

(* ---- handle_client ---- *)

\* upstream = self.connect_upstream() returned a socket.
connect_upstream_ok ==
    /\ h_pc = "connect"
    /\ sock' = [sock EXCEPT !["upstream"] = "open"]
    /\ h_pc' = "start_client_to_server"
    /\ UNCHANGED <<pool_vars, config, rec_vars, pc, fwd_data, rx, eof, tx, log, nsent, closes>>

\* A refusal that returns without closing the client socket.
connect_upstream_failed_leaves_client_open ==
    /\ h_pc = "connect"
    /\ h_pc' = "refused"
    /\ UNCHANGED <<pool_vars, config, rec_vars, sock, pc, fwd_data, rx, eof, tx, log, nsent, closes>>

\* connect_upstream returned None: client_socket.close(); return.
connect_upstream_failed ==
    /\ h_pc = "connect"
    /\ sock' = [sock EXCEPT !["client"] = "closed"]
    /\ closes' = [closes EXCEPT !["client"] = @ + 1]
    /\ h_pc' = "refused"
    /\ UNCHANGED <<pool_vars, config, rec_vars, pc, fwd_data, rx, eof, tx, log, nsent>>

\* client_to_server.start()
start_client_to_server ==
    /\ h_pc = "start_client_to_server"
    /\ pc' = [pc EXCEPT !["client->server"] = "recv"]
    /\ h_pc' = "start_server_to_client"
    /\ UNCHANGED <<pool_vars, config, rec_vars, sock, fwd_data, rx, eof, tx, log, nsent, closes>>

\* server_to_client.start()
start_server_to_client ==
    /\ h_pc = "start_server_to_client"
    /\ pc' = [pc EXCEPT !["server->client"] = "recv"]
    /\ h_pc' = "join_client_to_server"
    /\ UNCHANGED <<pool_vars, config, rec_vars, sock, fwd_data, rx, eof, tx, log, nsent, closes>>

\* client_to_server.join()
join_client_to_server ==
    /\ h_pc = "join_client_to_server"
    /\ pc["client->server"] = "done"
    /\ h_pc' = "join_server_to_client"
    /\ UNCHANGED <<pool_vars, config, rec_vars, sock, pc, fwd_data, rx, eof, tx, log, nsent, closes>>

\* server_to_client.join()
join_server_to_client ==
    /\ h_pc = "join_server_to_client"
    /\ pc["server->client"] = "done"
    /\ h_pc' = "finally"
    /\ UNCHANGED <<pool_vars, config, rec_vars, sock, pc, fwd_data, rx, eof, tx, log, nsent, closes>>

\* finally: client_socket.close(); upstream.close()
handle_client_finally ==
    /\ h_pc = "finally"
    /\ sock' = [p \in Peers |-> "closed"]
    /\ closes' = [p \in Peers |-> closes[p] + 1]
    /\ h_pc' = "done"
    /\ UNCHANGED <<pool_vars, config, rec_vars, pc, fwd_data, rx, eof, tx, log, nsent>>

(* ---- forward_data(source, destination, direction, intercept_auth) ---- *)

LogEntry(read, r, to) ==
    [read |-> read, out |-> r.data, intercepted |-> r.was_intercepted,
     to |-> to, status |-> "pending"]

SetLastStatus(l, st) == [l EXCEPT ![Len(l)].status = st]

\* source.recv(4096) can return: it is called on an open socket, or it is
\* already in progress.
CanRecv(d) == (pc[d] = "recv" /\ sock[Source(d)] = "open") \/ pc[d] = "in_recv"

\* The timeout of the socket of peer p: connect_upstream sets 10 seconds on
\* the upstream socket; the accepted client socket has none.
has_timeout(p) == p = "upstream"

\* self.intercept_auth_command(data) for every buffer the client may send,
\* tabulated once.
InterceptedAs ==
    [cfg \in SessionConfigs |->
        [b \in SessionBuffers |-> proxy_intercept_auth_command(cfg, b)]]

\* data = source.recv(4096) returned a buffer; with intercept_auth it goes
\* through intercept_auth_command, and an intercepted reply that starts
\* with -ERR is to be sent back to the source instead of on.
recv_data(d) ==
    /\ CanRecv(d)
    /\ rx[Source(d)] # <<>>
    /\ LET buf == Head(rx[Source(d)])
           r == IF intercept_auth(d) /\ d = "client->server"
                THEN InterceptedAs[config][buf]
                ELSE Result(buf, FALSE)
           failed == intercept_auth(d) /\ d = "client->server"
                        /\ auth_failed(r.was_intercepted, r.data)
       IN  /\ fwd_data' = [fwd_data EXCEPT ![d] = r.data]
           /\ pc' = [pc EXCEPT ![d] = IF failed THEN "send_error" ELSE "sendall"]
           /\ log' = IF d = "client->server"
                     THEN Append(log, LogEntry(buf, r,
                                    IF failed THEN "client" ELSE "upstream"))
                     ELSE log
    /\ rx' = [rx EXCEPT ![Source(d)] = Tail(@)]
    /\ UNCHANGED <<pool_vars, config, rec_vars, h_pc, sock, eof, tx, nsent, closes>>

\* recv returned b"" (the peer closed and nothing is left to read): break.
recv_eof(d) ==
    /\ CanRecv(d)
    /\ rx[Source(d)] = <<>> /\ eof[Source(d)]
    /\ pc' = [pc EXCEPT ![d] = "close_source"]
    /\ UNCHANGED <<pool_vars, config, rec_vars, h_pc, sock, fwd_data, rx, eof, tx, log, nsent, closes>>

\* source.recv(4096) finds nothing to read and blocks.
recv_blocks(d) ==
    /\ pc[d] = "recv"
    /\ sock[Source(d)] = "open"
    /\ rx[Source(d)] = <<>> /\ ~eof[Source(d)]
    /\ pc' = [pc EXCEPT ![d] = "in_recv"]
    /\ UNCHANGED <<pool_vars, config, rec_vars, h_pc, sock, fwd_data, rx, eof, tx, log, nsent, closes>>

\* The blocked recv raised socket.timeout: nothing arrived within the
\* timeout of the socket.  "except Exception: pass", then the finally block.
recv_timeout(d) ==
    /\ pc[d] = "in_recv"
    /\ has_timeout(Source(d))
    /\ rx[Source(d)] = <<>> /\ ~eof[Source(d)]
    /\ pc' = [pc EXCEPT ![d] = "close_source"]
    /\ UNCHANGED <<pool_vars, config, rec_vars, h_pc, sock, fwd_data, rx, eof, tx, log, nsent, closes>>

\* recv was called on a socket object the other forwarder has closed: it
\* raises at once.
recv_raises(d) ==
    /\ pc[d] = "recv"
    /\ sock[Source(d)] = "closed"
    /\ pc' = [pc EXCEPT ![d] = "close_source"]
    /\ UNCHANGED <<pool_vars, config, rec_vars, h_pc, sock, fwd_data, rx, eof, tx, log, nsent, closes>>

\* source.send(data) of the error reply, then break.
send_error(d) ==
    /\ pc[d] = "send_error"
    /\ sock[Source(d)] = "open"
    /\ tx' = [tx EXCEPT ![Source(d)] = Append(@, [by |-> d, data |-> fwd_data[d]])]
    /\ log' = SetLastStatus(log, "written")
    /\ pc' = [pc EXCEPT ![d] = "close_source"]
    /\ UNCHANGED <<pool_vars, config, rec_vars, h_pc, sock, fwd_data, rx, eof, nsent, closes>>

\* source.send(data) raised: the socket object is closed, or the peer is gone.
send_error_raises(d) ==
    /\ pc[d] = "send_error"
    /\ sock[Source(d)] = "closed" \/ eof[Source(d)]
    /\ log' = SetLastStatus(log, "raised")
    /\ pc' = [pc EXCEPT ![d] = "close_source"]
    /\ UNCHANGED <<pool_vars, config, rec_vars, h_pc, sock, fwd_data, rx, eof, tx, nsent, closes>>

\* A forwarder that writes every buffer twice.
sendall_twice(d) ==
    /\ pc[d] = "sendall"
    /\ sock[Destination(d)] = "open"
    /\ tx' = [tx EXCEPT ![Destination(d)] =
                  @ \o <<[by |-> d, data |-> fwd_data[d]], [by |-> d, data |-> fwd_data[d]]>>]
    /\ log' = IF d = "client->server" THEN SetLastStatus(log, "written") ELSE log
    /\ pc' = [pc EXCEPT ![d] = "recv"]
    /\ UNCHANGED <<pool_vars, config, rec_vars, h_pc, sock, fwd_data, rx, eof, nsent, closes>>

\* destination.sendall(data), then back to recv.
sendall(d) ==
    /\ pc[d] = "sendall"
    /\ sock[Destination(d)] = "open"
    /\ tx' = [tx EXCEPT ![Destination(d)] = Append(@, [by |-> d, data |-> fwd_data[d]])]
    /\ log' = IF d = "client->server" THEN SetLastStatus(log, "written") ELSE log
    /\ pc' = [pc EXCEPT ![d] = "recv"]
    /\ UNCHANGED <<pool_vars, config, rec_vars, h_pc, sock, fwd_data, rx, eof, nsent, closes>>

\* destination.sendall(data) raised: the socket object is closed, or the
\* peer is gone.
sendall_raises(d) ==
    /\ pc[d] = "sendall"
    /\ sock[Destination(d)] = "closed" \/ eof[Destination(d)]
    /\ log' = IF d = "client->server" THEN SetLastStatus(log, "raised") ELSE log
    /\ pc' = [pc EXCEPT ![d] = "close_source"]
    /\ UNCHANGED <<pool_vars, config, rec_vars, h_pc, sock, fwd_data, rx, eof, tx, nsent, closes>>

\* finally: source.close()
close_source(d) ==
    /\ pc[d] = "close_source"
    /\ sock' = [sock EXCEPT ![Source(d)] = "closed"]
    /\ closes' = [closes EXCEPT ![Source(d)] = @ + 1]
    /\ pc' = [pc EXCEPT ![d] = "close_destination"]
    /\ UNCHANGED <<pool_vars, config, rec_vars, h_pc, fwd_data, rx, eof, tx, log, nsent>>

\* A finally block that closes the source only.
close_destination_forgotten(d) ==
    /\ pc[d] = "close_destination"
    /\ pc' = [pc EXCEPT ![d] = "done"]
    /\ UNCHANGED <<pool_vars, config, rec_vars, h_pc, sock, fwd_data, rx, eof, tx, log, nsent, closes>>

\* finally: destination.close()
close_destination(d) ==
    /\ pc[d] = "close_destination"
    /\ sock' = [sock EXCEPT ![Destination(d)] = "closed"]
    /\ closes' = [closes EXCEPT ![Destination(d)] = @ + 1]
    /\ pc' = [pc EXCEPT ![d] = "done"]
    /\ UNCHANGED <<pool_vars, config, rec_vars, h_pc, fwd_data, rx, eof, tx, log, nsent>>

forward_data(d) ==
    \/ recv_data(d)
    \/ recv_eof(d)
    \/ recv_blocks(d)
    \/ recv_timeout(d)
    \/ recv_raises(d)
    \/ send_error(d)
    \/ send_error_raises(d)
    \/ sendall(d)
    \/ sendall_raises(d)
    \/ close_source(d)
    \/ close_destination(d)

handle_client ==
    \/ connect_upstream_ok
    \/ connect_upstream_failed
    \/ start_client_to_server
    \/ start_server_to_client
    \/ join_client_to_server
    \/ join_server_to_client
    \/ handle_client_finally

Next ==
    \/ handle_client
    \/ \E d \in Directions : forward_data(d)
    \/ ClientSend
    \/ UpstreamSend
    \/ \E p \in Peers : PeerClose(p)

Spec == Init /\ [][Next]_vars

\* The session under the scheduling of its threads: handle_client and the
\* two forward_data threads each take their next step whenever they have
\* one.  The peers are under no obligation to send or to close.
FairSpec ==
    /\ Spec
    /\ WF_vars(handle_client)
    /\ \A d \in Directions : WF_vars(forward_data(d))

\* What upstream has observed: the buffers written to it, in order.
ToUpstream == [i \in 1..Len(tx["upstream"]) |-> tx["upstream"][i].data]

-----------------------------------------------------------------------------
(* Properties of the session (checked under Spec) *)

\* What upstream is to receive for a rewritten AUTH: the well-formed array
\* AUTH <upstream username> <upstream password>.
UpstreamAuthFrame(cfg) ==
    resp_array(<<B("AUTH"), encode(IF cfg.redis_username = <<>>
                                   THEN B("default") ELSE cfg.redis_username),
                 encode(cfg.redis_password)>>)

\* C1: a client buffer that is exactly *2 / AUTH / <proxy password> is
\* intercepted and rewritten to *3 / AUTH / <upstream username> / <upstream
\* password> with matching length prefixes, and that frame is what the
\* session writes to upstream (it is not answered with the error reply).
C1_SingleArgAuthSuccess ==
    \A i \in 1..Len(log) :
        log[i].read = Auth2(B("AUTH"), config.proxy_password)
            => /\ log[i].intercepted
               /\ log[i].to = "upstream"
               /\ log[i].out = UpstreamAuthFrame(config)

\* The buffer was rewritten on its way to upstream.
Rewritten(e) == e.intercepted /\ e.to = "upstream"

\* C2: once a first AUTH/HELLO frame has been rewritten, every later client
\* buffer goes to upstream byte for byte as the client sent it, a later
\* valid AUTH frame with the proxy password included.
C2_OneShotInterception ==
    \A i, j \in 1..Len(log) :
        (i < j /\ Rewritten(log[i]))
            => (log[j].to = "upstream" /\ log[j].out = log[j].read)

\* The well-formed frames of the three shapes, by the password they carry.
ShapeFramesOf == [pw \in ClientPasswords |-> ShapeFrames(pw)]

\* The well-formed frames of the three shapes whose password is not the
\* proxy password.
WrongPasswordFrames(cfg) ==
    UNION {ShapeFramesOf[pw] : pw \in ClientPasswords \ {cfg.proxy_password}}

\* What the client->server forwarder has written to the client.
RepliesToClient ==
    SelectSeq(tx["client"], LAMBDA m : m.by = "client->server")

\* The buffers of log[1..n] that were written to upstream.
RECURSIVE WrittenUpstream(_, _)
WrittenUpstream(l, n) ==
    IF n = 0 THEN <<>>
    ELSE WrittenUpstream(l, n - 1)
            \o (IF l[n].to = "upstream" /\ l[n].status = "written"
                THEN <<l[n].out>> ELSE <<>>)

\* C3: when the client sends an AUTH/HELLO frame of one of the three shapes
\* with a password other than the proxy password, the forwarder answers the
\* client with exactly "-ERR invalid password\r\n" (the send can only fail
\* if the client has hung up or the other forwarder has already closed the
\* sockets), upstream receives nothing of that buffer nor of anything the
\* client sends later, and the forwarder ends with both sockets closed.
C3_AuthFailureClosesSession ==
    \A i \in 1..Len(log) :
        log[i].read \in WrongPasswordFrames(config)
            => /\ log[i].out = InvalidPassword /\ log[i].to = "client"
               /\ i = Len(log)
               /\ ToUpstream = WrittenUpstream(log, i - 1)
               /\ pc["client->server"] \in
                      {"send_error", "close_source", "close_destination", "done"}
               /\ log[i].status = "pending"
                      => (pc["client->server"] = "send_error" /\ RepliesToClient = <<>>)
               /\ log[i].status = "written"
                      => (/\ Len(RepliesToClient) = 1
                          /\ RepliesToClient[1].data = InvalidPassword)
               /\ log[i].status = "raised"
                      => (/\ RepliesToClient = <<>>
                          /\ eof["client"] \/ pc["server->client"] = "done")
               /\ pc["client->server"] = "done"
                      => (/\ log[i].status # "pending"
                          /\ sock["client"] = "closed"
                          /\ sock["upstream"] = "closed")

C3_Witness ==
    /\ Len(log) = 2
    /\ log[1].to = "upstream" /\ log[1].status = "written"
    /\ log[2].read = Auth2(B("AUTH"), B("wrong"))
    /\ log[2].status = "written"
    /\ pc["client->server"] = "done"
    /\ tx["client"] # <<>>

\* What the server->client forwarder has written to the client.
ForwardedToClient ==
    SelectSeq(tx["client"], LAMBDA m : m.by = "server->client")

\* How many buffers the proxy has read from upstream.
ReadFromUpstream == nsent["upstream"] - Len(rx["upstream"])

\* C11: in each direction the forwarder writes what it read, in the order
\* read.  What the server->client forwarder has written to the client is,
\* buffer for buffer, what was read from upstream (all of it while the
\* forwarder is reading, all but the buffer in hand otherwise); only the
\* client->server forwarder writes to upstream, and what it has written is
\* the output for each client buffer read, in the order read, none missing
\* but the last one while it is in hand or when its write raised, and a
\* buffer that was not intercepted is written as read.
C11_PerDirectionFidelity ==
    /\ Len(ForwardedToClient) <= ReadFromUpstream
    /\ ReadFromUpstream - Len(ForwardedToClient) <= 1
    /\ \A i \in 1..Len(ForwardedToClient) :
          ForwardedToClient[i].data = UpstreamReply(i)
    /\ pc["server->client"] \in {"recv", "in_recv"}
          => Len(ForwardedToClient) = ReadFromUpstream
    /\ \A i \in 1..Len(tx["upstream"]) : tx["upstream"][i].by = "client->server"
    /\ ToUpstream = WrittenUpstream(log, Len(log))
    /\ \A i \in 1..Len(log) :
          /\ i < Len(log) => (log[i].to = "upstream" /\ log[i].status = "written")
          /\ ~log[i].intercepted => log[i].out = log[i].read
    /\ pc["client->server"] \in {"recv", "in_recv"}
          => \A i \in 1..Len(log) :
                log[i].to = "upstream" /\ log[i].status = "written"

C11_Witness ==
    /\ Len(ToUpstream) = 2 /\ ToUpstream[1] # ToUpstream[2]
    /\ Len(ForwardedToClient) = 2
    /\ ForwardedToClient[1].data # ForwardedToClient[2].data

ForwarderEnded(d) == pc[d] \in {"close_source", "close_destination", "done"}

\* C13: once one forwarder has left its loop (its peer closed, a read or
\* write raised, or authentication failed), the other forwarder returns as
\* well and handle_client runs to its end.
C13_SessionTerminates ==
    (\E d \in Directions : ForwarderEnded(d)) ~> (h_pc = "done")

\* C14: a read that times out while both sockets are open puts the
\* forwarder back at its read; it does not take it out of its loop (to the
\* finally block that closes both sockets).
C14_ReadTimeoutNotFatal ==
    [][\A d \in Directions :
          (recv_timeout(d) /\ sock["client"] = "open" /\ sock["upstream"] = "open")
              => pc'[d] \in {"recv", "in_recv"}]_vars

\* C15: a session that could not obtain an upstream connection is REFUSED:
\* the client socket is closed, there is no upstream socket, nothing has
\* been written to the client, nothing has been read from it, and neither
\* forwarder has been started.
C15_RefusedOnUpstreamFailure ==
    h_pc = "refused" =>
        /\ sock["client"] = "closed" /\ sock["upstream"] = "none"
        /\ tx["client"] = <<>> /\ tx["upstream"] = <<>>
        /\ log = <<>>
        /\ \A d \in Directions : pc[d] = "idle"

\* The client has already sent a buffer when it is refused.
C15_Witness == h_pc = "refused" /\ rx["client"] # <<>>

-----------------------------------------------------------------------------
(* The recognizer on its own: one call on a buffer drawn from ClientBuffers *)

InitRecognizer ==
    /\ config \in Configs
    /\ rec_data \in ClientBuffers
    /\ rec_out = <<>>
    /\ rec_intercepted = FALSE
    /\ rec_called = FALSE
    /\ SessionNotStarted
    /\ PoolNotStarted

Recognize ==
    /\ ~rec_called
    /\ LET r == intercept_auth_command(config, rec_data)
       IN  /\ rec_out' = r.data
           /\ rec_intercepted' = r.was_intercepted
    /\ rec_called' = TRUE
    /\ UNCHANGED <<config, rec_data>>
    /\ UNCHANGED <<session_vars, pool_vars>>

NextRecognizer == Recognize

SpecRecognizer == InitRecognizer /\ [][NextRecognizer]_vars

-----------------------------------------------------------------------------
(* Properties of the recognizer (checked under SpecRecognizer) *)

\* C4: for each of the three frame shapes, a password other than the proxy
\* password yields exactly "-ERR invalid password\r\n" with intercepted =
\* true, and a frame carrying the proxy password never yields that reply.
C4_RejectsExactlyWrongPasswords ==
    rec_called =>
        /\ (\E pw \in WrongPasswords(config) : rec_data \in ShapeFrames(pw))
              => (rec_out = InvalidPassword /\ rec_intercepted)
        /\ rec_data \in ShapeFrames(config.proxy_password)
              => rec_out # InvalidPassword

\* C5: a three-element AUTH carrying the proxy password is intercepted and
\* answered with the array *3 / AUTH / upstream username / upstream
\* password, each element behind a $-prefix, and the bytes returned are the
\* same whatever username the client supplied.
C5_Auth3Success ==
    (rec_called /\ rec_data \in Auth3With(B("AUTH"), config.proxy_password)) =>
        LET parts == split(decode(rec_out), CRLF)
        IN  /\ rec_intercepted
            /\ Len(parts) = 8
            /\ parts[1] = B("*3")
            /\ parts[2] = B("$4") /\ parts[3] = B("AUTH")
            /\ startswith(parts[4], B("$")) /\ parts[5] = UpstreamUser(config)
            /\ startswith(parts[6], B("$")) /\ parts[7] = UpstreamPass(config)
            /\ parts[8] = <<>>
            /\ \A u \in ClientUsernames :
                 rec_out = intercept_auth_command(
                               config, Auth3(B("AUTH"), u, config.proxy_password)).data

C5_Witness ==
    /\ rec_called
    /\ rec_data = Auth3(B("AUTH"), B("alice"), config.proxy_password)
    /\ rec_intercepted
    /\ config.redis_username = B("juicefs")

\* The HELLO frame (h, ver, a, u, pw) with its final bulk string replaced by
\* the upstream password behind a prefix giving that password's length.
HelloRewritten(h, ver, a, u, cfg) ==
    B("*5\r\n") \o bulk(encode(h)) \o bulk(encode(ver)) \o bulk(encode(a))
        \o bulk(encode(u))
        \o B("$") \o str(Len(UpstreamPass(cfg))) \o CRLF
        \o encode(UpstreamPass(cfg)) \o CRLF

\* C6: a five-element HELLO <ver> AUTH <user> <pw> frame, HELLO and AUTH in
\* any letter case, carrying the proxy password is intercepted and returned
\* with only its final bulk string and length prefix replaced by the
\* upstream password and its length; version and username are kept.
C6_HelloSuccess ==
    rec_called =>
        \A h \in HelloTokens, a \in {B("AUTH"), B("auth")},
           u \in {B("default"), B("al") \o EAcute} :
            rec_data = Hello(h, B("3"), a, u, config.proxy_password)
                => /\ rec_intercepted
                   /\ rec_out = HelloRewritten(h, B("3"), a, u, config)

C6_Witness ==
    /\ rec_called
    /\ rec_data = Hello(B("HeLLo"), B("3"), B("auth"), B("default"), config.proxy_password)
    /\ rec_intercepted
    /\ config.redis_password = B("up")

\* C7: a two- or three-element AUTH frame is recognised whatever the letter
\* case of its command token: it is never returned un-intercepted, a wrong
\* password yields the invalid-password reply, and (three-element form) the
\* proxy password yields the upstream AUTH command.
C7_AuthAnyCase ==
    rec_called =>
        \A cmd \in AuthTokens :
            /\ (\E pw \in ClientPasswords :
                    rec_data \in Auth2With(cmd, pw) \cup Auth3With(cmd, pw))
                  => rec_intercepted
            /\ (\E pw \in WrongPasswords(config) :
                    rec_data \in Auth2With(cmd, pw) \cup Auth3With(cmd, pw))
                  => rec_out = InvalidPassword
            /\ rec_data \in Auth3With(cmd, config.proxy_password)
                  => rec_out = encode(new_cmd(UpstreamUser(config), UpstreamPass(config)))

\* ASCII lower-casing of raw bytes.
ascii_lower(b) == [i \in 1..Len(b) |-> IF b[i] \in 65..90 THEN b[i] + 32 ELSE b[i]]

\* The buffer holds the array header of an AUTH or HELLO frame, in any case.
HasFramePattern(b) ==
    \/ Contains(ascii_lower(b), B("*2\r\n$4\r\nauth\r\n"))
    \/ Contains(ascii_lower(b), B("*3\r\n$4\r\nauth\r\n"))
    \/ Contains(ascii_lower(b), B("*5\r\n$5\r\nhello\r\n"))

C9_PassthroughOnDoubt ==
    (rec_called /\ rec_data \in MismatchFrames) =>
        (rec_out = rec_data /\ ~rec_intercepted)

\* The decimal number written at b[i..j], or -1 if that is not a number.
RECURSIVE number(_, _, _)
number(b, i, j) ==
    IF i > j \/ b[j] \notin 48..57 THEN -1
    ELSE IF i = j THEN b[j] - 48
    ELSE LET hi == number(b, i, j - 1)
         IN  IF hi < 0 THEN -1 ELSE hi * 10 + (b[j] - 48)

\* The position of the first CRLF at or after i, or 0.
crlf_at(b, i) ==
    IF \E k \in i..(Len(b) - 1) : b[k] = 13 /\ b[k + 1] = 10
    THEN CHOOSE k \in i..(Len(b) - 1) :
            /\ b[k] = 13 /\ b[k + 1] = 10
            /\ \A j \in i..(k - 1) : ~(b[j] = 13 /\ b[j + 1] = 10)
    ELSE 0

\* From position i, exactly k bulk strings $<n>\r\n<n bytes>\r\n fill b.
RECURSIVE bulks_fill(_, _, _)
bulks_fill(b, i, k) ==
    IF k = 0 THEN i = Len(b) + 1
    ELSE /\ i <= Len(b) /\ b[i] = 36
         /\ LET e == crlf_at(b, i)
                n == IF e = 0 THEN -1 ELSE number(b, i + 1, e - 1)
            IN  /\ n >= 0
                /\ e + 2 + n + 1 <= Len(b)
                /\ b[e + 2 + n] = 13 /\ b[e + 2 + n + 1] = 10
                /\ bulks_fill(b, e + 2 + n + 2, k - 1)

\* b is *<k>\r\n followed by exactly k bulk strings, every prefix the byte
\* length of its payload.
WellFormedArray(b) ==
    /\ Len(b) >= 4 /\ b[1] = 42
    /\ LET e == crlf_at(b, 1)
           k == IF e = 0 THEN -1 ELSE number(b, 2, e - 1)
       IN  k >= 0 /\ bulks_fill(b, e + 2, k)

\* C10: in every frame the recognizer generates, each $<n> prefix is the
\* UTF-8 byte length of its payload and the *<k> header is the number of
\* elements, also for an empty upstream password and multi-byte credentials.
C10_GeneratedLengths ==
    (rec_called /\ rec_intercepted /\ rec_out # InvalidPassword) =>
        WellFormedArray(rec_out)

-----------------------------------------------------------------------------
(* AsyncConnectionPool (src/src/pool.py)                                   *)
(*                                                                         *)
(* The pool runs on one asyncio event loop: a coroutine runs without       *)
(* interruption up to an await that waits for I/O, a timer or another      *)
(* task, and each action below is one such stretch.  "async with           *)
(* self.lock" never waits, because no holder of the lock awaits inside it. *)
(* A connection is a (reader, writer) pair, named by the order of its      *)
(* creation.  The upstream server is the environment: a connect attempt    *)
(* succeeds or fails, and a health check of an open connection passes or   *)
(* fails.  The sessions that call get() and release() are those of the     *)
(* session handler: each borrows once and releases what it borrowed once.  *)

\* redis_pool_size and redis_pool_prewarm are read from the environment
\* with int(), without a check of their range.
PoolSizes == {0, 1, 2}

PrewarmCounts == {0, 1, 2}

PoolConfigs ==
    {[redis_pool_size |-> n, redis_pool_prewarm |-> k] :
        n \in PoolSizes, k \in PrewarmCounts}

\* self.size and self.prewarm_count
size == config.redis_pool_size

prewarm_count == config.redis_pool_prewarm

min(a, b) == IF a <= b THEN a ELSE b

\* asyncio.Queue(maxsize=self.size).full(): a queue whose maxsize is not
\* positive is never full.
full == size > 0 /\ Len(pool) >= size

session_vars_etc == <<config, rec_vars, session_vars, auth_vars>>

server_vars == <<run_pc, server_task, _shutdown_event, result, first_shutdown>>

InitPool ==
    /\ config \in PoolConfigs
    /\ RecognizerUnused
    /\ SessionNotStarted
    /\ PoolNotStarted

\* asyncio.run(run_async_proxy()): the event loop runs until
\* run_async_proxy returns; nothing is scheduled after that.
loop_running == run_pc # "returned"

\* The connection the next successful _create_connection returns.
new_connection == Len(conns) + 1

\* writer.close() on connection c
close(cs, c) == [cs EXCEPT ![c] = "closed"]

\* The connections of list l, all closed.
close_all(cs, l) ==
    [c \in DOMAIN cs |->
        IF \E i \in 1..Len(l) : l[i] = c THEN "closed" ELSE cs[c]]

\* A coroutine that ends with connections in a local list drops them
\* without closing them.  What becomes of them is the runtime's affair:
\* a StreamWriter that is garbage-collected closes its transport on the
\* runtimes that give it a finaliser, and stays open on the others.
dropped(cs, l) == {cs, close_all(cs, l)}

(* ---- the counter updates, each under "async with self.lock" ---- *)

\* _create_connection_for_prewarm: current_size += 1; created += 1
prewarm_stats(st) == [st EXCEPT !.current_size = @ + 1, !.created = @ + 1]

\* A pop that is counted as two hits.
hit_stats_twice(st) == [st EXCEPT !.pool_hits = @ + 2, !.current_size = @ - 1]

\* get, after get_nowait: pool_hits += 1; current_size -= 1
hit_stats(st) == [st EXCEPT !.pool_hits = @ + 1, !.current_size = @ - 1]

\* A reuse that is counted twice.
reused_stats_twice(st) == [st EXCEPT !.reused = @ + 2]

\* get, healthy: reused += 1
reused_stats(st) == [st EXCEPT !.reused = @ + 1]

\* get and release, unhealthy: failed_health_checks += 1; connections_closed += 1
discard_stats(st) ==
    [st EXCEPT !.failed_health_checks = @ + 1, !.connections_closed = @ + 1]

\* A miss that is not counted.
miss_stats_forgotten(st) == st

\* get, on QueueEmpty: pool_misses += 1
miss_stats(st) == [st EXCEPT !.pool_misses = @ + 1]

\* get, after _create_connection: created += 1
created_stats(st) == [st EXCEPT !.created = @ + 1]

\* release, after put_nowait: current_size += 1
enqueue_stats(st) == [st EXCEPT !.current_size = @ + 1]

\* release, on QueueFull: connections_closed += 1
full_stats(st) == [st EXCEPT !.connections_closed = @ + 1]

\* _cleanup_unhealthy_connections, unhealthy: failed_health_checks += 1;
\* connections_closed += 1; current_size -= 1
cleanup_stats(st) ==
    [st EXCEPT !.failed_health_checks = @ + 1, !.connections_closed = @ + 1,
               !.current_size = @ - 1]

(* ---- run_async_proxy(), up to the start of the server ---- *)

\* load_config() raises ConfigError (or int() raises ValueError):
\* "return 1".
load_config_fails ==
    /\ run_pc = "load_config"
    /\ run_pc' = "returned"
    /\ result' = 1
    /\ UNCHANGED <<server_task, _shutdown_event, first_shutdown>>
    /\ UNCHANGED <<pool, stats, _shutdown, maintenance_task, conns, init_pc,
                   pw_pc, s_pc, s_conn, m_pc, temp_connections, sd_pc, returned>>
    /\ UNCHANGED session_vars_etc

(* ---- initialize() and _prewarm_pool() ---- *)

\* load_config() returned, the signal handlers are set and
\* server_manager.initialize(config) is awaited: it constructs the proxy
\* and initializes it, which initializes the pool.
\* initialize(): create the maintenance task, then gather the prewarm
\* tasks, range(min(self.prewarm_count, self.size)) of them.
initialize ==
    /\ run_pc = "load_config"
    /\ init_pc = "none"
    /\ run_pc' = "initialize"
    /\ maintenance_task' = IF _shutdown THEN "done" ELSE "running"
    /\ m_pc' = IF _shutdown THEN "done" ELSE "sleep"
    /\ LET n == IF prewarm_count > 0 THEN min(prewarm_count, size) ELSE 0
       IN  /\ pw_pc' = [i \in PrewarmTasks |-> IF i <= n THEN "create" ELSE "none"]
           /\ init_pc' = IF prewarm_count > 0 THEN "gather" ELSE "done"
    /\ UNCHANGED <<pool, stats, _shutdown, conns, s_pc, s_conn,
                   temp_connections, sd_pc, returned>>
    /\ UNCHANGED <<server_task, _shutdown_event, result, first_shutdown>>
    /\ UNCHANGED session_vars_etc

\* A prewarm task whose connection is counted and not put in the queue.
prewarm_put_counts_only(i) ==
    /\ loop_running
    /\ pw_pc[i] = "create"
    /\ ~full
    /\ conns' = Append(conns, "open")
    /\ stats' = prewarm_stats(stats)
    /\ pw_pc' = [pw_pc EXCEPT ![i] = "done"]
    /\ UNCHANGED <<pool, _shutdown, maintenance_task, init_pc, s_pc, s_conn,
                   m_pc, temp_connections, sd_pc, returned>>
    /\ UNCHANGED server_vars
    /\ UNCHANGED session_vars_etc

\* _create_connection_for_prewarm(i): _create_connection returned a
\* connection: put it and count it.  "await self.pool.put(connection)"
\* finds room: sessions start after initialize() has returned, and until
\* then there are at most min(prewarm_count, size) connections.
prewarm_put(i) ==
    /\ loop_running
    /\ pw_pc[i] = "create"
    /\ ~full
    /\ conns' = Append(conns, "open")
    /\ pool' = Append(pool, new_connection)
    /\ stats' = prewarm_stats(stats)
    /\ pw_pc' = [pw_pc EXCEPT ![i] = "done"]
    /\ UNCHANGED <<_shutdown, maintenance_task, init_pc, s_pc, s_conn, m_pc,
                   temp_connections, sd_pc, returned>>
    /\ UNCHANGED server_vars
    /\ UNCHANGED session_vars_etc

\* A failed creation that is counted as a created connection.
prewarm_failed_counted(i) ==
    /\ loop_running
    /\ pw_pc[i] = "create"
    /\ stats' = created_stats(stats)
    /\ pw_pc' = [pw_pc EXCEPT ![i] = "done"]
    /\ UNCHANGED <<pool, _shutdown, maintenance_task, conns, init_pc,
                    s_pc, s_conn, m_pc, temp_connections, sd_pc, returned>>
    /\ UNCHANGED server_vars
    /\ UNCHANGED session_vars_etc

\* _create_connection returned None: nothing is put, nothing is counted.
prewarm_failed(i) ==
    /\ loop_running
    /\ pw_pc[i] = "create"
    /\ pw_pc' = [pw_pc EXCEPT ![i] = "done"]
    /\ UNCHANGED <<pool, stats, _shutdown, maintenance_task, conns, init_pc,
                    s_pc, s_conn, m_pc, temp_connections, sd_pc, returned>>
    /\ UNCHANGED server_vars
    /\ UNCHANGED session_vars_etc

\* asyncio.gather returned: initialize() returns.
initialize_returns ==
    /\ loop_running
    /\ init_pc = "gather"
    /\ \A i \in PrewarmTasks : pw_pc[i] \in {"none", "done"}
    /\ init_pc' = "done"
    /\ UNCHANGED <<pool, stats, _shutdown, maintenance_task, conns, pw_pc,
                    s_pc, s_conn, m_pc, temp_connections, sd_pc, returned>>
    /\ UNCHANGED server_vars
    /\ UNCHANGED session_vars_etc

(* ---- the sessions ---- *)

\* The session handler borrows with "upstream = await pool.get()": get()
\* runs from the call (s_pc "idle") to its first await.  Sessions are
\* accepted while the server task runs, which is created once
\* initialize() has returned; they are numbered in the order in which
\* they are accepted.
accepted(s) ==
    /\ s_pc[s] = "idle"
    /\ server_task = "running"
    /\ \A t \in Sessions : t < s => s_pc[t] # "idle"

at_get_nowait(s) == accepted(s) \/ s_pc[s] = "get"

\* The session handler is done with the connection get() returned to it
\* and calls "await pool.release(reader, writer)", once: release() runs
\* to the await of its health check, with no effect on the pool.
session_releases(s) == s_pc[s] = "holding"

(* ---- get() ---- *)

\* A pop that leaves the connection in the queue.
get_hit_leaves_in_queue(s) ==
    /\ loop_running
    /\ at_get_nowait(s)
    /\ pool # <<>>
    /\ s_conn' = [s_conn EXCEPT ![s] = Head(pool)]
    /\ stats' = hit_stats(stats)
    /\ s_pc' = [s_pc EXCEPT ![s] = "get_health_check"]
    /\ UNCHANGED <<pool, _shutdown, maintenance_task, conns, init_pc, pw_pc, 
                   m_pc, temp_connections, sd_pc, returned>>
    /\ UNCHANGED server_vars
    /\ UNCHANGED session_vars_etc

\* connection = self.pool.get_nowait() returned a connection: count the
\* hit, then await its health check.
get_hit(s) ==
    /\ loop_running
    /\ at_get_nowait(s)
    /\ pool # <<>>
    /\ s_conn' = [s_conn EXCEPT ![s] = Head(pool)]
    /\ pool' = Tail(pool)
    /\ stats' = hit_stats(stats)
    /\ s_pc' = [s_pc EXCEPT ![s] = "get_health_check"]
    /\ UNCHANGED <<_shutdown, maintenance_task, conns, init_pc, pw_pc, 
                   m_pc, temp_connections, sd_pc, returned>>
    /\ UNCHANGED server_vars
    /\ UNCHANGED session_vars_etc

\* The health check passed: count the reuse and return the connection.
get_reuses(s) ==
    /\ loop_running
    /\ s_pc[s] = "get_health_check"
    /\ conns[s_conn[s]] = "open"
    /\ stats' = reused_stats(stats)
    /\ s_pc' = [s_pc EXCEPT ![s] = "holding"]
    /\ UNCHANGED <<pool, _shutdown, maintenance_task, conns, init_pc, pw_pc,
                    s_conn, m_pc, temp_connections, sd_pc, returned>>
    /\ UNCHANGED server_vars
    /\ UNCHANGED session_vars_etc

\* The health check failed: count it, writer.close(), await
\* writer.wait_closed(); on return "continue", back to get_nowait.
get_discards(s) ==
    /\ loop_running
    /\ s_pc[s] = "get_health_check"
    /\ stats' = discard_stats(stats)
    /\ conns' = close(conns, s_conn[s])
    /\ s_conn' = [s_conn EXCEPT ![s] = 0]
    /\ s_pc' = [s_pc EXCEPT ![s] = "get"]
    /\ UNCHANGED <<pool, _shutdown, maintenance_task, init_pc, pw_pc, 
                   m_pc, temp_connections, sd_pc, returned>>
    /\ UNCHANGED server_vars
    /\ UNCHANGED session_vars_etc

\* The health check failed on a connection that was lost with an error
\* (a reset by the peer): count it, writer.close(), and
\* "await writer.wait_closed()" raises that error.  Only QueueEmpty is
\* caught around it: get() raises it to the session handler.
get_wait_closed_raises(s) ==
    /\ loop_running
    /\ s_pc[s] = "get_health_check"
    /\ stats' = discard_stats(stats)
    /\ conns' = close(conns, s_conn[s])
    /\ s_conn' = [s_conn EXCEPT ![s] = 0]
    /\ s_pc' = [s_pc EXCEPT ![s] = "raised"]
    /\ UNCHANGED <<pool, _shutdown, maintenance_task, init_pc, pw_pc, 
                   m_pc, temp_connections, sd_pc, returned>>
    /\ UNCHANGED server_vars
    /\ UNCHANGED session_vars_etc

\* get_nowait raised QueueEmpty: count the miss, break, await
\* _create_connection.
get_miss(s) ==
    /\ loop_running
    /\ at_get_nowait(s)
    /\ pool = <<>>
    /\ stats' = miss_stats(stats)
    /\ s_pc' = [s_pc EXCEPT ![s] = "get_create"]
    /\ UNCHANGED <<pool, _shutdown, maintenance_task, conns, init_pc, pw_pc,
                    s_conn, m_pc, temp_connections, sd_pc, returned>>
    /\ UNCHANGED server_vars
    /\ UNCHANGED session_vars_etc

\* _create_connection returned a connection: count it and return it.
get_creates(s) ==
    /\ loop_running
    /\ s_pc[s] = "get_create"
    /\ conns' = Append(conns, "open")
    /\ stats' = created_stats(stats)
    /\ s_conn' = [s_conn EXCEPT ![s] = new_connection]
    /\ s_pc' = [s_pc EXCEPT ![s] = "holding"]
    /\ UNCHANGED <<pool, _shutdown, maintenance_task, init_pc, pw_pc, 
                   m_pc, temp_connections, sd_pc, returned>>
    /\ UNCHANGED server_vars
    /\ UNCHANGED session_vars_etc

\* _create_connection returned None: raise ConnectionError.
get_fails(s) ==
    /\ loop_running
    /\ s_pc[s] = "get_create"
    /\ s_pc' = [s_pc EXCEPT ![s] = "refused"]
    /\ UNCHANGED <<pool, stats, _shutdown, maintenance_task, conns, init_pc,
                   pw_pc,  s_conn, m_pc, temp_connections, sd_pc, returned>>
    /\ UNCHANGED server_vars
    /\ UNCHANGED session_vars_etc

get(s) ==
    \/ get_hit(s)
    \/ get_reuses(s)
    \/ get_discards(s)
    \/ get_wait_closed_raises(s)
    \/ get_miss(s)
    \/ get_creates(s)
    \/ get_fails(s)

(* ---- release(reader, writer) ---- *)

\* A failed health check after which the connection is put in the queue.
release_discards_and_enqueues(s) ==
    /\ loop_running
    /\ session_releases(s)
    /\ stats' = discard_stats(stats)
    /\ pool' = Append(pool, s_conn[s])
    /\ s_conn' = [s_conn EXCEPT ![s] = 0]
    /\ s_pc' = [s_pc EXCEPT ![s] = "done"]
    /\ UNCHANGED <<conns, _shutdown, maintenance_task, init_pc, pw_pc, 
                   m_pc, temp_connections, sd_pc, returned>>
    /\ UNCHANGED server_vars
    /\ UNCHANGED session_vars_etc

\* The health check failed: count it, close the connection, return.  An
\* error raised by "await writer.wait_closed()" is caught by release()
\* itself, which closes the writer again and returns.
release_discards(s) ==
    /\ loop_running
    /\ session_releases(s)
    /\ stats' = discard_stats(stats)
    /\ conns' = close(conns, s_conn[s])
    /\ s_conn' = [s_conn EXCEPT ![s] = 0]
    /\ s_pc' = [s_pc EXCEPT ![s] = "done"]
    /\ UNCHANGED <<pool, _shutdown, maintenance_task, init_pc, pw_pc, 
                   m_pc, temp_connections, sd_pc, returned>>
    /\ UNCHANGED server_vars
    /\ UNCHANGED session_vars_etc

\* A put_nowait that succeeds on a full queue.
release_enqueues_when_full(s) ==
    /\ loop_running
    /\ session_releases(s)
    /\ conns[s_conn[s]] = "open"
    /\ pool' = Append(pool, s_conn[s])
    /\ stats' = enqueue_stats(stats)
    /\ returned' = returned + 1
    /\ s_conn' = [s_conn EXCEPT ![s] = 0]
    /\ s_pc' = [s_pc EXCEPT ![s] = "done"]
    /\ UNCHANGED <<_shutdown, maintenance_task, conns, init_pc, pw_pc, 
                   m_pc, temp_connections, sd_pc>>
    /\ UNCHANGED server_vars
    /\ UNCHANGED session_vars_etc

\* The health check passed and put_nowait succeeded: count the idle
\* connection.
release_enqueues(s) ==
    /\ loop_running
    /\ session_releases(s)
    /\ conns[s_conn[s]] = "open"
    /\ ~full
    /\ pool' = Append(pool, s_conn[s])
    /\ stats' = enqueue_stats(stats)
    /\ returned' = returned + 1
    /\ s_conn' = [s_conn EXCEPT ![s] = 0]
    /\ s_pc' = [s_pc EXCEPT ![s] = "done"]
    /\ UNCHANGED <<_shutdown, maintenance_task, conns, init_pc, pw_pc, 
                   m_pc, temp_connections, sd_pc>>
    /\ UNCHANGED server_vars
    /\ UNCHANGED session_vars_etc

\* The health check passed and put_nowait raised QueueFull: count the
\* close and close the connection.
release_full(s) ==
    /\ loop_running
    /\ session_releases(s)
    /\ conns[s_conn[s]] = "open"
    /\ full
    /\ stats' = full_stats(stats)
    /\ conns' = close(conns, s_conn[s])
    /\ s_conn' = [s_conn EXCEPT ![s] = 0]
    /\ s_pc' = [s_pc EXCEPT ![s] = "done"]
    /\ UNCHANGED <<pool, _shutdown, maintenance_task, init_pc, pw_pc, 
                   m_pc, temp_connections, sd_pc, returned>>
    /\ UNCHANGED server_vars
    /\ UNCHANGED session_vars_etc

release(s) ==
    \/ release_discards(s)
    \/ release_enqueues(s)
    \/ release_full(s)

(* ---- _maintenance_worker() and _cleanup_unhealthy_connections() ---- *)

\* Where the worker goes once it is done with the head of temp_connections:
\* to the next health check, or out of the for loop and back to sleep.
after_head == IF Len(temp_connections) > 1 THEN "health_check" ELSE "sleep"

\* The worker is resumed at "await self._is_connection_healthy(...)" with
\* the result of the check.  It has not been cancelled, or the
\* cancellation came as the reply did: asyncio.wait_for then returns the
\* reply in place of CancelledError (on the runtimes whose wait_for does
\* so, Python 3.11 and before), and the worker goes on uncancelled.
health_check_returns ==
    /\ m_pc = "health_check"
    /\ maintenance_task \in {"running", "cancelling", "finishing"}

\* The worker goes on to the await "to", uncancelled; when that is the end of the
\* sweep and the pool is being shut down, "while not self._shutdown"
\* ends the worker.
worker_goes_on(to) ==
    IF to = "sleep" /\ _shutdown
    THEN /\ maintenance_task' = "done"
         /\ m_pc' = "done"
    ELSE /\ maintenance_task' =
               IF maintenance_task = "cancelling" THEN "finishing"
               ELSE maintenance_task
         /\ m_pc' = to

\* asyncio.sleep(60) returned: extract all connections from the pool, then
\* await the health check of the first (with none, back to sleep).
cleanup_extracts ==
    /\ loop_running
    /\ maintenance_task = "running"
    /\ m_pc = "sleep"
    /\ temp_connections' = pool
    /\ pool' = <<>>
    /\ m_pc' = IF pool # <<>> THEN "health_check" ELSE "sleep"
    /\ UNCHANGED <<stats, _shutdown, maintenance_task, conns, init_pc, pw_pc,
                    s_pc, s_conn, sd_pc, returned>>
    /\ UNCHANGED server_vars
    /\ UNCHANGED session_vars_etc

\* The connection is healthy and put_nowait succeeded.
cleanup_returns ==
    /\ loop_running
    /\ health_check_returns
    /\ conns[Head(temp_connections)] = "open"
    /\ ~full
    /\ pool' = Append(pool, Head(temp_connections))
    /\ temp_connections' = Tail(temp_connections)
    /\ worker_goes_on(after_head)
    /\ UNCHANGED <<stats, _shutdown, conns, init_pc, pw_pc,
                    s_pc, s_conn, sd_pc, returned>>
    /\ UNCHANGED server_vars
    /\ UNCHANGED session_vars_etc

\* The connection is healthy and put_nowait raised QueueFull:
\* writer.close(), await writer.wait_closed(), cleaned += 1.  No counter
\* of the pool is touched.
cleanup_full ==
    /\ loop_running
    /\ health_check_returns
    /\ conns[Head(temp_connections)] = "open"
    /\ full
    /\ conns' = close(conns, Head(temp_connections))
    /\ temp_connections' = Tail(temp_connections)
    /\ worker_goes_on(after_head)
    /\ UNCHANGED <<pool, stats, _shutdown, init_pc, pw_pc,
                    s_pc, s_conn, sd_pc, returned>>
    /\ UNCHANGED server_vars
    /\ UNCHANGED session_vars_etc

\* The connection is unhealthy: writer.close(), await writer.wait_closed().
cleanup_discards ==
    /\ loop_running
    /\ health_check_returns
    /\ conns' = close(conns, Head(temp_connections))
    /\ worker_goes_on("wait_closed_unhealthy")
    /\ UNCHANGED <<pool, stats, _shutdown, init_pc, pw_pc,
                    s_pc, s_conn, temp_connections, sd_pc, returned>>
    /\ UNCHANGED server_vars
    /\ UNCHANGED session_vars_etc

\* wait_closed returned for the unhealthy connection: count it.
cleanup_discarded ==
    /\ loop_running
    /\ maintenance_task \in {"running", "finishing"}
    /\ m_pc = "wait_closed_unhealthy"
    /\ stats' = cleanup_stats(stats)
    /\ temp_connections' = Tail(temp_connections)
    /\ worker_goes_on(after_head)
    /\ UNCHANGED <<pool, _shutdown, conns, init_pc, pw_pc,
                    s_pc, s_conn, sd_pc, returned>>
    /\ UNCHANGED server_vars
    /\ UNCHANGED session_vars_etc

\* wait_closed raised the error the unhealthy connection was lost with:
\* nothing is counted, the error leaves _cleanup_unhealthy_connections
\* and is logged by the worker ("except Exception"), which goes back to
\* sleep.  The connections still to check are dropped with the list.
cleanup_wait_closed_raises ==
    /\ loop_running
    /\ maintenance_task \in {"running", "finishing"}
    /\ m_pc = "wait_closed_unhealthy"
    /\ conns' \in dropped(conns, Tail(temp_connections))
    /\ temp_connections' = <<>>
    /\ worker_goes_on("sleep")
    /\ UNCHANGED <<pool, stats, _shutdown, init_pc, pw_pc,
                    s_pc, s_conn, sd_pc, returned>>
    /\ UNCHANGED server_vars
    /\ UNCHANGED session_vars_etc

\* The cancelled worker is resumed with CancelledError at the await it
\* stands at (the sleep, a health check or a wait_closed): "break".  The
\* connections a sweep had taken out of the queue are dropped with its
\* list; temp_connections keeps them here as the record of what the
\* cancelled sweep held.
maintenance_cancelled ==
    /\ loop_running
    /\ maintenance_task = "cancelling"
    /\ maintenance_task' = "done"
    /\ m_pc' = "done"
    /\ conns' \in dropped(conns, temp_connections)
    /\ UNCHANGED <<pool, stats, _shutdown, init_pc, pw_pc,  s_pc,
                   s_conn, temp_connections, sd_pc, returned>>
    /\ UNCHANGED server_vars
    /\ UNCHANGED session_vars_etc

_maintenance_worker ==
    \/ cleanup_extracts
    \/ cleanup_returns
    \/ cleanup_full
    \/ cleanup_discards
    \/ cleanup_discarded
    \/ cleanup_wait_closed_raises
    \/ maintenance_cancelled

(* ---- shutdown() ---- *)

\* When call k is made: a signal arrives once the handlers are set and
\* the proxy exists; run_async_proxy calls once asyncio.wait has returned
\* and the pending task is cancelled.
called(k) ==
    IF k = "signal"
    THEN run_pc \in {"initialize", "wait", "ensure_shutdown"}
    ELSE run_pc = "ensure_shutdown"

\* A shutdown that sets the flag and leaves the maintenance task alone.
shutdown_sets_flag_only(k) ==
    /\ loop_running
    /\ sd_pc[k] = "idle"
    /\ called(k)
    /\ _shutdown' = TRUE
    /\ first_shutdown' = IF first_shutdown = "none" THEN k ELSE first_shutdown
    /\ sd_pc' = [sd_pc EXCEPT
                    ![k] = IF maintenance_task = "none" THEN "drain" ELSE "await_task"]
    /\ UNCHANGED <<pool, stats, conns, init_pc, pw_pc,  s_pc, s_conn,
                   m_pc, temp_connections, returned, maintenance_task>>
    /\ UNCHANGED <<run_pc, server_task, _shutdown_event, result>>
    /\ UNCHANGED session_vars_etc

\* self._shutdown = True; cancel the maintenance task, if there is one,
\* and await it.
shutdown_cancels(k) ==
    /\ loop_running
    /\ sd_pc[k] = "idle"
    /\ called(k)
    /\ _shutdown' = TRUE
    /\ first_shutdown' = IF first_shutdown = "none" THEN k ELSE first_shutdown
    /\ maintenance_task' =
          IF maintenance_task \in {"running", "finishing"} THEN "cancelling"
          ELSE maintenance_task
    /\ sd_pc' = [sd_pc EXCEPT
                    ![k] = IF maintenance_task = "none" THEN "drain" ELSE "await_task"]
    /\ UNCHANGED <<pool, stats, conns, init_pc, pw_pc,  s_pc, s_conn,
                   m_pc, temp_connections, returned>>
    /\ UNCHANGED <<run_pc, server_task, _shutdown_event, result>>
    /\ UNCHANGED session_vars_etc

\* "await self.maintenance_task" has returned, or writer.wait_closed()
\* has: the call is at "while not self.pool.empty()".
at_drain(k) ==
    \/ sd_pc[k] = "await_task" /\ maintenance_task = "done"
    \/ sd_pc[k] = "drain"

\* The pool is not empty: get a connection, writer.close(), await
\* writer.wait_closed(); on return back to "while not self.pool.empty()".
\* No counter is touched.
shutdown_closes(k) ==
    /\ loop_running
    /\ at_drain(k)
    /\ pool # <<>>
    /\ pool' = Tail(pool)
    /\ conns' = close(conns, Head(pool))
    /\ sd_pc' = [sd_pc EXCEPT ![k] = "drain"]
    /\ UNCHANGED <<stats, _shutdown, maintenance_task, init_pc, pw_pc, 
                   s_pc, s_conn, m_pc, temp_connections, returned>>
    /\ UNCHANGED server_vars
    /\ UNCHANGED session_vars_etc

\* The connection got from the queue was lost with an error while it was
\* idle: "await writer.wait_closed()" raises it.  Only TimeoutError and
\* QueueEmpty are caught: shutdown() raises, the rest of the queue stays.
shutdown_wait_closed_raises(k) ==
    /\ loop_running
    /\ at_drain(k)
    /\ pool # <<>>
    /\ pool' = Tail(pool)
    /\ conns' = close(conns, Head(pool))
    /\ sd_pc' = [sd_pc EXCEPT ![k] = "raised"]
    /\ UNCHANGED <<stats, _shutdown, maintenance_task, init_pc, pw_pc, 
                   s_pc, s_conn, m_pc, temp_connections, returned>>
    /\ UNCHANGED server_vars
    /\ UNCHANGED session_vars_etc

\* The pool is empty: shutdown() returns, and server_manager.shutdown()
\* sets the shutdown event.
shutdown_returns(k) ==
    /\ loop_running
    /\ at_drain(k)
    /\ pool = <<>>
    /\ sd_pc' = [sd_pc EXCEPT ![k] = "done"]
    /\ _shutdown_event' = TRUE
    /\ UNCHANGED <<pool, stats, _shutdown, maintenance_task, conns, init_pc,
                   pw_pc,  s_pc, s_conn, m_pc, temp_connections, returned>>
    /\ UNCHANGED <<run_pc, server_task, result, first_shutdown>>
    /\ UNCHANGED session_vars_etc

shutdown(k) ==
    \/ shutdown_cancels(k)
    \/ shutdown_closes(k)
    \/ shutdown_wait_closed_raises(k)
    \/ shutdown_returns(k)

(* ---- run_async_proxy(), from the start of the server ---- *)

\* server_manager.initialize() returned: create the server task and the
\* task that waits for the shutdown event, and await asyncio.wait on both.
server_starts ==
    /\ run_pc = "initialize"
    /\ init_pc = "done"
    /\ server_task' = "running"
    /\ run_pc' = "wait"
    /\ UNCHANGED <<_shutdown_event, result, first_shutdown>>
    /\ UNCHANGED <<pool, stats, _shutdown, maintenance_task, conns, init_pc,
                   pw_pc, s_pc, s_conn, m_pc, temp_connections, sd_pc, returned>>
    /\ UNCHANGED session_vars_etc

\* AsyncServerManager.start(): start_server() raised (the listener cannot
\* bind, say); the error is logged and raised again: the server task
\* ends with it.
start_server_raises ==
    /\ run_pc = "wait"
    /\ server_task = "running"
    /\ server_task' = "failed"
    /\ UNCHANGED <<run_pc, _shutdown_event, result, first_shutdown>>
    /\ UNCHANGED <<pool, stats, _shutdown, maintenance_task, conns, init_pc,
                   pw_pc, s_pc, s_conn, m_pc, temp_connections, sd_pc, returned>>
    /\ UNCHANGED session_vars_etc

\* asyncio.wait returned, one of the two tasks being done: cancel the
\* pending one and await it.  The outcome of the server task is not
\* looked at.
wait_returns ==
    /\ run_pc = "wait"
    /\ server_task = "failed" \/ _shutdown_event
    /\ server_task' = IF server_task = "running" THEN "cancelled" ELSE server_task
    /\ run_pc' = "ensure_shutdown"
    /\ UNCHANGED <<_shutdown_event, result, first_shutdown>>
    /\ UNCHANGED <<pool, stats, _shutdown, maintenance_task, conns, init_pc,
                   pw_pc, s_pc, s_conn, m_pc, temp_connections, sd_pc, returned>>
    /\ UNCHANGED session_vars_etc

\* "await server_manager.shutdown()" returned: "return 0".
run_returns ==
    /\ run_pc = "ensure_shutdown"
    /\ sd_pc["final"] = "done"
    /\ result' = 0
    /\ run_pc' = "returned"
    /\ UNCHANGED <<server_task, _shutdown_event, first_shutdown>>
    /\ UNCHANGED <<pool, stats, _shutdown, maintenance_task, conns, init_pc,
                   pw_pc, s_pc, s_conn, m_pc, temp_connections, sd_pc, returned>>
    /\ UNCHANGED session_vars_etc

\* "await server_manager.shutdown()" raised: "except Exception: return 1".
run_fails ==
    /\ run_pc = "ensure_shutdown"
    /\ sd_pc["final"] = "raised"
    /\ result' = 1
    /\ run_pc' = "returned"
    /\ UNCHANGED <<server_task, _shutdown_event, first_shutdown>>
    /\ UNCHANGED <<pool, stats, _shutdown, maintenance_task, conns, init_pc,
                   pw_pc, s_pc, s_conn, m_pc, temp_connections, sd_pc, returned>>
    /\ UNCHANGED session_vars_etc

run_async_proxy ==
    \/ load_config_fails
    \/ server_starts
    \/ wait_returns
    \/ run_returns
    \/ run_fails

_create_connection_for_prewarm(i) ==
    \/ prewarm_put(i)
    \/ prewarm_failed(i)

NextPool ==
    \/ run_async_proxy
    \/ start_server_raises
    \/ initialize
    \/ \E i \in PrewarmTasks : _create_connection_for_prewarm(i)
    \/ initialize_returns
    \/ \E s \in Sessions : get(s)
    \/ \E s \in Sessions : release(s)
    \/ _maintenance_worker
    \/ \E k \in ShutdownCalls : shutdown(k)

SpecPool == InitPool /\ [][NextPool]_vars

\* The event loop resumes the worker whenever what it awaits is done, and
\* all its awaits end: a cancellation is delivered at the next turn of the
\* loop, a health check waits at most a second for the drain and a second
\* for the reply, the sleep lasts a minute, wait_closed returns once the
\* closed transport has lost its connection.
FairSpecPool == SpecPool /\ WF_vars(_maintenance_worker)

(* ---- what a session does with the connection it holds ---- *)

\* The client of session s sends an AUTH or HELLO frame with the proxy
\* password; the client->upstream forwarder rewrites it with the upstream
\* credentials and writes it to the connection the session holds:
\* upstream authenticates that connection, for as long as it lives.
session_authenticates(s) ==
    /\ loop_running
    /\ s_pc[s] = "holding"
    /\ s \notin presented
    /\ presented' = presented \cup {s}
    /\ authenticated' = authenticated \cup {s_conn[s]}
    /\ UNCHANGED <<config, rec_vars, session_vars, pool_state>>

NextPoolSessions ==
    \/ NextPool
    \/ \E s \in Sessions : session_authenticates(s)

\* The pool with sessions whose clients may authenticate.
SpecPoolSessions == InitPool /\ [][NextPoolSessions]_vars

-----------------------------------------------------------------------------
(* Properties of the pool (checked under SpecPool) *)

\* C16: the idle queue never holds more than pool_max (self.size)
\* connections.
C16_IdleQueueBounded == Len(pool) <= size

\* Connection c is in the idle queue.
InQueue(c) == \E i \in 1..Len(pool) : pool[i] = c

\* Connection c is in the scratch list of a sweep.
InSweep(c) == \E i \in 1..Len(temp_connections) : temp_connections[i] = c

\* C17: no connection is in the idle queue twice, no connection a session
\* holds (from the pop or the creation in get() to the verdict of
\* release()) is in the idle queue or in the scratch list of a sweep, no
\* connection is held by two sessions, and no connection is both in the
\* queue and in the scratch list.
C17_ExclusiveOwnership ==
    /\ \A i, j \in 1..Len(pool) : i # j => pool[i] # pool[j]
    /\ \A s \in Sessions :
          s_conn[s] # 0 => (~InQueue(s_conn[s]) /\ ~InSweep(s_conn[s]))
    /\ \A s, t \in Sessions : (s # t /\ s_conn[s] # 0) => s_conn[s] # s_conn[t]
    /\ \A i \in 1..Len(pool) : ~InSweep(pool[i])

\* A session holds a connection it got from the queue while another
\* connection is idle and a sweep is checking a third.
C17_Witness ==
    /\ \E s \in Sessions : s_pc[s] = "holding"
    /\ stats.reused >= 1
    /\ pool # <<>>
    /\ temp_connections # <<>> /\ m_pc = "health_check"

\* No operation of the pool is in progress.
AtRest ==
    /\ init_pc \in {"none", "done"}
    /\ \A s \in Sessions :
          s_pc[s] \in {"idle", "holding", "refused", "raised", "done"}
    /\ maintenance_task \in {"none", "done"} \/ m_pc = "sleep"
    /\ maintenance_task # "cancelling"
    /\ \A k \in ShutdownCalls : sd_pc[k] \in {"idle", "done", "raised"}

\* C18: whenever no operation of the pool is in progress, the counter
\* stats['current_size'] equals the length of the idle queue.
C18_IdleCounterAgrees == AtRest => stats.current_size = Len(pool)

\* C19 as stated: pool_hits <= created.
C19_HitsAtMostCreated == stats.pool_hits <= stats.created

\* C19 as amended: pool_hits is at most created plus the number of
\* connections release() has put back in the idle queue.
C19_HitsAtMostCreatedPlusReturned ==
    stats.pool_hits <= stats.created + returned

\* One connection has been popped twice.
C19_Witness ==
    /\ stats.created = 1
    /\ stats.pool_hits = 2
    /\ returned = 1

\* C20: reused <= pool_hits.
C20_ReusedAtMostHits == stats.reused <= stats.pool_hits

\* One pop was reused and another was discarded after its health check.
C20_Witness ==
    /\ stats.reused = 1
    /\ stats.pool_hits = 2
    /\ stats.failed_health_checks >= 1

\* The borrow calls that have completed: get() returned a connection to
\* its session or raised.
completed_borrows ==
    Cardinality({s \in Sessions :
                    s_pc[s] \in {"holding", "done", "refused", "raised"}})

\* C21: pool_hits + pool_misses is at least the number of borrow calls
\* that have completed (returned a connection or failed).
C21_BorrowsCounted == stats.pool_hits + stats.pool_misses >= completed_borrows

\* One borrow was served from the queue and another failed after a miss.
C21_Witness ==
    /\ \E s \in Sessions : s_pc[s] = "refused"
    /\ \E s \in Sessions : s_pc[s] = "holding"
    /\ stats.reused = 1
    /\ stats.pool_misses = 1

\* C22: when shutdown() returns, the idle queue is empty and every
\* connection the pool owned is closed, those included that the
\* maintenance sweep had taken out of the queue and was still checking
\* when it was cancelled.
C22_ShutdownClosesEverythingIdle ==
    [][\A k \in ShutdownCalls :
          shutdown_returns(k) =>
             /\ pool' = <<>>
             /\ \A i \in 1..Len(temp_connections') :
                   conns'[temp_connections'[i]] = "closed"]_vars

\* Call k of shutdown() is a second call: another call began before it.
second(k) == first_shutdown \notin {"none", k}

\* C23: a second call of shutdown(), after the first or concurrent with
\* it, raises no error, closes no connection that is closed already, and,
\* made on the empty queue the first call left, changes nothing in the
\* pool.
C23_ShutdownIdempotent ==
    [][\A k \in ShutdownCalls :
          (second(k) /\ shutdown(k)) =>
             /\ sd_pc'[k] # "raised"
             /\ conns' # conns => (pool # <<>> /\ conns[Head(pool)] = "open")
             /\ (first_shutdown # "none" /\ sd_pc[first_shutdown] = "done"
                    /\ pool = <<>>)
                   => UNCHANGED <<pool, conns, stats, temp_connections,
                                  _shutdown, maintenance_task>>]_vars

\* No health check has failed and nothing has been closed: every
\* connection created so far is open.
upstream_healthy == \A c \in DOMAIN conns : conns[c] = "open"

\* initialize() has returned with at least one connection prewarmed, the
\* pool is in service, upstream has stayed healthy and no borrow has
\* missed so far.
reusing ==
    /\ init_pc = "done"
    /\ stats.created >= 1
    /\ stats.pool_misses = 0
    /\ upstream_healthy
    /\ ~_shutdown

\* The borrows are strictly successive: when session s borrows, no other
\* session is between its borrow and the end of its release.
successive(s) == \A u \in Sessions \ {s} : s_pc[u] \in {"idle", "done"}

\* What C24 says of a step of get() for session s.
served_from_queue(s) ==
    /\ accepted(s) =>
          /\ pool # <<>>
          /\ stats'.pool_misses = 0
          /\ stats'.created = stats.created
    /\ (s_pc[s] = "get_health_check" /\ s_pc'[s] = "holding") =>
          /\ stats'.reused = stats.reused + 1
          /\ stats'.pool_misses = 0
          /\ stats'.created = stats.created

\* C24 as stated (for a pool in service): after a prewarm of k >= 1
\* connections and while upstream stays healthy, every one of strictly
\* successive borrows is served from the idle queue: created stays k,
\* pool_misses stays 0, reused increases by one per borrow.
C24_PoolReuse ==
    [][\A s \in Sessions :
          (reusing /\ successive(s) /\ get(s)) => served_from_queue(s)]_vars

\* C24 as amended: the same, for the borrows made while no maintenance
\* sweep holds connections in its scratch list.
C24_PoolReuseBetweenSweeps ==
    [][\A s \in Sessions :
          (reusing /\ successive(s) /\ temp_connections = <<>> /\ get(s))
             => served_from_queue(s)]_vars

\* Two successive borrows were both served by the one connection that was
\* prewarmed.
C24_Witness ==
    /\ \A s \in Sessions : s_pc[s] = "done"
    /\ stats.reused = 2
    /\ stats.pool_misses = 0
    /\ stats.created = 1
    /\ upstream_healthy
    /\ ~_shutdown

\* The connections sessions hold: returned by get() and not yet through
\* release().
borrowed == {s_conn[s] : s \in {u \in Sessions : s_pc[u] = "holding"}}

\* C25 as stated (for a capacity of at least 1): the number of
\* connections borrowed at the same time is at most pool_max.
C25_BorrowedAtMostCapacity == size >= 1 => Cardinality(borrowed) <= size

\* C25 as amended: the capacity bounds the idle connections and not the
\* borrowed ones: with pool_max >= 1 the idle queue holds at most pool_max
\* connections, and the borrowed connections are as many as the sessions
\* that hold one.
C25_CapacityBoundsIdleOnly ==
    /\ size >= 1 => Len(pool) <= size
    /\ Cardinality(borrowed) =
          Cardinality({s \in Sessions : s_pc[s] = "holding"})
    /\ Cardinality(borrowed) <= MaxSessions

\* With a capacity of 1 and the queue full, two sessions hold a
\* connection each.
C25_Witness ==
    /\ size = 1
    /\ Len(pool) = 1
    /\ Cardinality(borrowed) = 2

\* C26: run_async_proxy returns 1 when the configuration cannot be
\* loaded and when the server fails after its start, returns 0 only
\* after a clean shutdown, and has shut the proxy down before it returns
\* from a started server.
C26_ExitStatus ==
    run_pc = "returned" =>
       /\ server_task = "none" => result = 1
       /\ server_task = "failed" => result = 1
       /\ result = 0 => (server_task = "cancelled" /\ sd_pc["final"] = "done")
       /\ server_task # "none" => sd_pc["final"] \in {"done", "raised"}

\* C27: a popped connection whose health check is over is either returned
\* (the check passed: reused + 1, nothing else counted, the connection is
\* open) or closed with failed_health_checks + 1 and
\* connections_closed + 1, after which get() goes on to the next idle
\* connection.
C27_HitPath ==
    [][\A s \in Sessions :
          (s_pc[s] = "get_health_check" /\ get(s)) =>
             \/ /\ s_pc'[s] = "holding"
                /\ s_conn'[s] = s_conn[s]
                /\ conns'[s_conn[s]] = "open"
                /\ stats' = [stats EXCEPT !.reused = @ + 1]
             \/ /\ s_pc'[s] = "get"
                /\ conns'[s_conn[s]] = "closed"
                /\ stats' = [stats EXCEPT !.failed_health_checks = @ + 1,
                                          !.connections_closed = @ + 1]]_vars

\* C28: get() fails only after it found the idle queue empty and
\* _create_connection failed, with created and the queue unchanged; the
\* miss increases pool_misses by one; a successful creation increases
\* created by one and the fresh connection is returned, not enqueued.
C28_MissPath ==
    [][\A s \in Sessions :
          get(s) =>
             /\ s_pc'[s] \in {"refused", "raised"} =>
                   (s_pc[s] = "get_create" /\ stats' = stats /\ pool' = pool)
             /\ s_pc'[s] = "get_create" =>
                   /\ pool = <<>>
                   /\ pool' = pool
                   /\ stats' = [stats EXCEPT !.pool_misses = @ + 1]
             /\ (s_pc[s] = "get_create" /\ s_pc'[s] = "holding") =>
                   /\ stats' = [stats EXCEPT !.created = @ + 1]
                   /\ pool' = pool
                   /\ conns'[s_conn'[s]] = "open"
                   /\ ~InQueue(s_conn'[s])]_vars

\* C29: release(conn) returns with conn either in the idle queue, once,
\* which happens only to an open connection when the queue had room, with
\* current_size + 1; or closed and not in the queue, with
\* connections_closed + 1.  release() returns in every case.
C29_ReleaseOutcome ==
    [][\A s \in Sessions :
          (session_releases(s) /\ release(s)) =>
             /\ s_pc'[s] = "done"
             /\ \/ /\ conns[s_conn[s]] = "open"
                   /\ ~full
                   /\ ~InQueue(s_conn[s])
                   /\ pool' = Append(pool, s_conn[s])
                   /\ conns' = conns
                   /\ stats' = [stats EXCEPT !.current_size = @ + 1]
                \/ /\ conns'[s_conn[s]] = "closed"
                   /\ pool' = pool
                   /\ ~InQueue(s_conn[s])
                   /\ stats'.connections_closed = stats.connections_closed + 1
                   /\ stats'.current_size = stats.current_size]_vars

\* One release put its connection back and another closed its own on a
\* full queue.
C29_Witness ==
    /\ \A s \in Sessions : s_pc[s] = "done"
    /\ returned = 1
    /\ stats.connections_closed = 1
    /\ stats.failed_health_checks = 0
    /\ Len(pool) = size

\* Connection c is open and nobody has it: it is not in the idle queue,
\* not in the scratch list of a sweep, not with a session.
lost(c) ==
    /\ conns[c] = "open"
    /\ ~InQueue(c)
    /\ ~InSweep(c)
    /\ \A s \in Sessions : s_conn[s] # c

\* C30: when the maintenance worker is between two sweeps, no connection
\* is lost: every connection a sweep took out of the idle queue is back
\* in the queue (or with a session that borrowed it since) or closed.
C30_SweepConserves ==
    (maintenance_task = "running" /\ m_pc = "sleep") =>
        \A c \in DOMAIN conns : ~lost(c)

\* get_stats(): a copy of self.stats taken under the lock, to which
\* pool_size (self.pool.qsize()) and max_size (self.size) are added.  The
\* lock is never held across an await, so the call does not suspend: it
\* returns what the pool is like at the await point where the other
\* coroutines stand when it runs.
get_stats ==
    [key \in DOMAIN stats \cup {"pool_size", "max_size"} |->
        IF key = "pool_size" THEN Len(pool)
        ELSE IF key = "max_size" THEN size
        ELSE stats[key]]

\* C31: every snapshot get_stats returns, whatever the other coroutines
\* are suspended at, has current_size equal to pool_size and pool_size at
\* most max_size.
C31_SnapshotConsistent ==
    /\ get_stats.current_size = get_stats.pool_size
    /\ get_stats.pool_size <= get_stats.max_size

\* The tasks _prewarm_pool has created.
prewarm_attempts == Cardinality({i \in PrewarmTasks : pw_pc[i] # "none"})

\* The prewarm tasks whose _create_connection returned a connection:
\* until initialize() has returned no session is accepted, and every
\* connection there is was created by a prewarm task.
prewarm_successes == Len(conns)

\* This step is the one at which initialize() returns: with the gather,
\* or at once when prewarm_count is not positive.
initialize_returning == init_pc # "done" /\ init_pc' = "done"

\* C32, as claimed: initialize() attempts exactly min(pool_prewarm,
\* pool_max) creations, and when it returns the idle-queue length,
\* current_size and created all equal the number of successes.
C32_Prewarm ==
    [][initialize_returning =>
          /\ prewarm_attempts' = min(prewarm_count, size)
          /\ Len(pool') = prewarm_successes'
          /\ stats'.current_size = prewarm_successes'
          /\ stats'.created = prewarm_successes']_vars

\* No sweep has taken connections out of the queue and kept or closed
\* them, and no shutdown has begun.
undisturbed ==
    /\ upstream_healthy
    /\ temp_connections = <<>>
    /\ ~_shutdown

\* C32, amended: initialize() attempts exactly min(pool_prewarm, pool_max)
\* creations; each success is put in the queue once and counted once in
\* current_size and in created, a failure changes nothing; when
\* initialize() returns created equals the number of successes, and so do
\* the idle-queue length and current_size unless a maintenance sweep or a
\* shutdown has taken connections out of the queue meanwhile.
C32_PrewarmUndisturbed ==
    [][/\ \A i \in PrewarmTasks :
            _create_connection_for_prewarm(i) =>
               \/ /\ Len(conns') = Len(conns) + 1
                  /\ pool' = Append(pool, Len(conns'))
                  /\ ~InQueue(Len(conns'))
                  /\ stats' = [stats EXCEPT !.current_size = @ + 1,
                                            !.created = @ + 1]
               \/ UNCHANGED <<conns, pool, stats>>
       /\ initialize_returning =>
            /\ prewarm_attempts' = min(prewarm_count, size)
            /\ stats'.created = prewarm_successes'
            /\ undisturbed' =>
                  /\ Len(pool') = prewarm_successes'
                  /\ stats'.current_size = prewarm_successes']_vars

\* initialize() has returned after two attempts, of which one failed:
\* one connection is idle and counted.
C32_Witness ==
    /\ init_pc = "done"
    /\ run_pc = "initialize"
    /\ prewarm_attempts = 2
    /\ prewarm_successes = 1
    /\ Len(pool) = 1
    /\ stats.created = 1
    /\ stats.current_size = 1
    /\ undisturbed

\* C33: once shutdown() has been called the maintenance worker eventually
\* terminates, and it begins no sweep from then on: a sweep in progress
\* when shutdown() is called is abandoned at its await or, where the
\* cancellation is lost to the reply of a health check, carried to its
\* end, and none follows.
C33_WorkerTerminates ==
    /\ _shutdown ~> (maintenance_task = "done")
    /\ [][_shutdown => ~cleanup_extracts]_vars
    /\ [][(_shutdown /\ m_pc' # m_pc) =>
             /\ m_pc' \in {"health_check", "wait_closed_unhealthy", "done"}
             /\ m_pc # "sleep" \/ m_pc' = "done"
             /\ Len(temp_connections') <= Len(temp_connections)]_vars

\* shutdown() was called in the middle of a sweep and the worker has
\* terminated, having dropped what the sweep held.
C33_Witness ==
    /\ _shutdown
    /\ maintenance_task = "done"
    /\ temp_connections # <<>>

\* The bytes s occur in the bytes b.
occurs(s, b) ==
    \E i \in 1..(Len(b) - Len(s) + 1) : SubSeq(b, i, i + Len(s) - 1) = s

\* C34: the client->server forwarder writes nothing to the client but
\* the literal "-ERR invalid password\r\n"; no buffer that holds the
\* upstream password goes to the client.
C34_OnlyErrorReplyToClient ==
    \A i \in 1..Len(RepliesToClient) :
        /\ RepliesToClient[i].data = InvalidPassword
        /\ ~occurs(encode(config.redis_password), RepliesToClient[i].data)

\* C35: a session that holds a connection on which upstream has accepted
\* an AUTH (its commands execute as authenticated) has presented the proxy
\* password itself: the authentication of an earlier session does not
\* come to it with a connection from the idle queue.
C35_NoAuthCarryOver ==
    \A s \in Sessions :
        (s_pc[s] = "holding" /\ s_conn[s] \in authenticated) => s \in presented

\* A call of shutdown() has completed.
shutdown_completed == \E k \in ShutdownCalls : sd_pc[k] = "done"

\* C36: once a call of shutdown() has completed, the idle queue holds no
\* open connection, whatever is released afterwards.
C36_NoIdleAfterShutdown ==
    shutdown_completed =>
        \A i \in 1..Len(pool) : conns[pool[i]] # "open"

\* The connections that are closed in this step.
newly_closed ==
    {c \in DOMAIN conns : conns[c] = "open" /\ conns'[c] = "closed"}

\* The connections the pool has created that are still open.
still_open == {c \in DOMAIN conns : conns[c] = "open"}

\* In this step nothing is closed by the pool itself: connections a
\* sweep drops with its list are closed, if at all, by the runtime.
runtime_closes == maintenance_cancelled \/ cleanup_wait_closed_raises

\* C37: every close the pool performs is counted once in
\* connections_closed: in the step that closes, or, for an unhealthy
\* connection of a sweep, which is counted after wait_closed, when that
\* wait ends; so created minus connections_closed is never less than the
\* number of connections still open.
C37_ClosesCounted ==
    /\ [][(newly_closed # {} /\ ~runtime_closes /\ ~cleanup_discards) =>
             stats'.connections_closed =
                 stats.connections_closed + Cardinality(newly_closed)]_vars
    /\ [][(m_pc = "wait_closed_unhealthy" /\ m_pc' # m_pc) =>
             stats'.connections_closed = stats.connections_closed + 1]_vars
    /\ [](stats.created - stats.connections_closed >= Cardinality(still_open))

\* C38: with a positive pool_max, the idle counter stays within 0 and
\* pool_max in every reachable state.
C38_IdleCounterBounds ==
    size >= 1 =>
        /\ 0 <= stats.current_size
        /\ stats.current_size <= size

====
